---- MODULE Spec2Model ----
(***************************************************************************)
(* Model of the matchmaking core: MatchmakingService (queue indices,       *)
(* matcher tick, ready-check handshake, finalization through the Game      *)
(* service) and the MatchmakingGateway handlers that drive it.             *)
(*                                                                         *)
(* The service runs on the Node.js event loop: every handler, tick and     *)
(* timer callback runs to completion, and the only suspension point is     *)
(* the `await gameService.createGame(...)` inside finalizeMatch.  An       *)
(* action of this module is one such run-to-completion step.               *)
(*                                                                         *)
(* The model covers the running service: the gateway has handed the        *)
(* Socket.IO server to the service (setServer), the tick interval is       *)
(* armed (onModuleInit) and the sockets of the population have passed      *)
(* handleConnection; process start and shutdown are not modelled.          *)
(***************************************************************************)
EXTENDS Integers, Sequences, FiniteSets, TLC

(***************************************************************************)
(* Bounds of the model.                                                    *)
(***************************************************************************)
MaxTicks == 2         \* the clock is moved on at most this many times
MaxMatches == 1       \* at most this many matchIds are ever generated

(***************************************************************************)
(* Program constants.                                                      *)
(***************************************************************************)
MATCH_ACCEPT_TIMEOUT_MS == 15000
PENALTY_DURATION_SECONDS == 300
TICK_RATE_MS == 1000
BASE_TOLERANCE == 50
EXPANSION_INTERVAL_MS == 10000
EXPANSION_STEP == 1

(***************************************************************************)
(* The population: authenticated users, and the sockets they connect       *)
(* with.  A socket id names one connection; user "A" opens two.            *)
(***************************************************************************)
Users == {"A", "B", "C"}
AllSockets == {"sA", "sB", "sC", "sA2"}
Sockets == {"sA", "sB", "sC"}      \* the sockets that send events

\* socket.data.userId, set by handleConnection from the JWT
SocketUser(s) ==
    CASE s = "sA" -> "A"
      [] s = "sA2" -> "A"
      [] s = "sB" -> "B"
      [] s = "sC" -> "C"

\* UserService.getUserElo: the rating snapshot taken at connection time
getUserElo(u) ==
    CASE u = "A" -> 1500
      [] u = "B" -> 1520
      [] u = "C" -> 1560

NoElo == -1                       \* join_queue payload without an elo field
PayloadElos == {NoElo}            \* the payloads of join_queue that are tried
OtherGameId == 0                  \* a gameId of the Game service that is not the matchId

MatchIds == 1..MaxMatches

(***************************************************************************)
(* State.                                                                  *)
(***************************************************************************)
VARIABLES
    now,             \* Date.now(), in ms
    server,          \* MatchmakingService.server is set
    matchmakingInterval,  \* the setInterval handle of onModuleInit is live
    activeQueue,     \* Map userId -> QueuedPlayer, in insertion order
    activeSockets,   \* Set of socketId
    pendingMatches,  \* Map matchId -> PendingMatch
    timers,          \* armed setTimeout handles: matchId -> the time it is due
    finalizing,      \* finalizeMatch calls suspended on createGame: matchId -> match
    penalties,       \* rows of the penalties table
    nextMatchId,     \* stands for randomUUID(): the next fresh matchId
    sock,            \* per socket: "connected" or "closed"
    ticks,           \* number of steps that moved the clock
    penaltyCalls,    \* calls of penaltyRepository.addPenalty, in order
    gameCalls,       \* calls of gameService.createGame, in order
    sessionCalls,    \* calls of matchHistoryRepository.createSessionLog, in order
    sessionLog,      \* rows of the matchmaking_sessions table
    closed,          \* matchId -> how and in which state the match left pendingMatches
    sent             \* matchId -> the events the service emitted to the
                     \* participants of that match, in order

svcVars == <<activeQueue, activeSockets, pendingMatches, timers, finalizing,
             penalties, penaltyCalls, gameCalls, sessionCalls, sessionLog,
             closed>>
vars == <<now, server, matchmakingInterval, activeQueue, activeSockets,
          pendingMatches, timers, finalizing, penalties, nextMatchId, sock,
          ticks, penaltyCalls, gameCalls, sessionCalls, sessionLog, closed,
          sent>>

(***************************************************************************)
(* Helpers on sequences.                                                   *)
(***************************************************************************)
Range(seq) == {seq[i] : i \in 1..Len(seq)}

\* What a handler reads and writes, as one record: the fields of the
\* service, its collaborators, the events it emits and the error it throws.
Svc ==
    [activeQueue |-> activeQueue, activeSockets |-> activeSockets,
     pendingMatches |-> pendingMatches, timers |-> timers,
     finalizing |-> finalizing, penalties |-> penalties,
     penaltyCalls |-> penaltyCalls, gameCalls |-> gameCalls,
     sessionCalls |-> sessionCalls, sessionLog |-> sessionLog,
     closed |-> closed, emitted |-> <<>>, error |-> ""]

Throw(st, message) == [st EXCEPT !.error = message]

Emit(st, e) == [st EXCEPT !.emitted = Append(@, e)]

\* Map.delete and Map.set
MapDelete(f, k) == [x \in DOMAIN f \ {k} |-> f[x]]
MapSet(f, k, v) == [x \in DOMAIN f \cup {k} |-> IF x = k THEN v ELSE f[x]]

QueueUsers(q) == {q[i].userId : i \in 1..Len(q)}
QueueHas(q, userId) == userId \in QueueUsers(q)
QueueGet(q, userId) == CHOOSE p \in Range(q) : p.userId = userId
QueueDelete(q, userId) == SelectSeq(q, LAMBDA p : p.userId # userId)

(***************************************************************************)
(* Penalty store (penalties table): active penalty = row with              *)
(* expires_at > now.                                                       *)
(***************************************************************************)
getActivePenalty(rows, userId, t) ==
    {r \in rows : r.userId = userId /\ r.expiresAt > t}

addPenalty(rows, userId, durationSeconds, reason, t) ==
    rows \cup {[userId |-> userId, reason |-> reason,
                expiresAt |-> t + durationSeconds * 1000]}

(***************************************************************************)
(* MatchmakingService.                                                     *)
(***************************************************************************)
getQueueStats(st) ==
    [size |-> Len(st.activeQueue),
     pending |-> Cardinality(DOMAIN st.pendingMatches)]

emitQueueStats(st) ==
    IF server
    THEN Emit(st, [to |-> "broadcast", event |-> "queue_stats",
                   stats |-> getQueueStats(st)])
    ELSE st

isUserInPendingMatch(pm, userId) ==
    \E m \in DOMAIN pm :
        pm[m].player1.userId = userId \/ pm[m].player2.userId = userId

createQueuedPlayer(userId, socketId, elo, priority, t) ==
    [userId |-> userId, socketId |-> socketId, elo |-> elo,
     joinTime |-> t, rangeFactor |-> 1, priority |-> priority]

\* addPlayer without its check of the pending matches
addPlayerErrorQueueOnly(st, userId, socketId, t) ==
    IF getActivePenalty(st.penalties, userId, t) # {} THEN "You are banned"
    ELSE IF QueueHas(st.activeQueue, userId) THEN "User already in queue"
    ELSE IF socketId \in st.activeSockets THEN "Socket already active"
    ELSE ""

\* addPlayer without its penalty check
addPlayerErrorNoPenalty(st, userId, socketId, t) ==
    IF QueueHas(st.activeQueue, userId) THEN "User already in queue"
    ELSE IF isUserInPendingMatch(st.pendingMatches, userId)
         THEN "User already in a pending match"
    ELSE IF socketId \in st.activeSockets THEN "Socket already active"
    ELSE ""

\* addPlayer without its check of the active sockets
addPlayerErrorNoSocket(st, userId, socketId, t) ==
    IF getActivePenalty(st.penalties, userId, t) # {} THEN "You are banned"
    ELSE IF QueueHas(st.activeQueue, userId) THEN "User already in queue"
    ELSE IF isUserInPendingMatch(st.pendingMatches, userId)
         THEN "User already in a pending match"
    ELSE ""

\* The error addPlayer throws, "" when it throws none.
addPlayerError(st, userId, socketId, t) ==
    IF getActivePenalty(st.penalties, userId, t) # {} THEN "You are banned"
    ELSE IF QueueHas(st.activeQueue, userId) THEN "User already in queue"
    ELSE IF isUserInPendingMatch(st.pendingMatches, userId)
         THEN "User already in a pending match"
    ELSE IF socketId \in st.activeSockets THEN "Socket already active"
    ELSE ""

\* addPlayer that does not record the socket in activeSockets
addPlayerNoSocketIndex(st, userId, socketId, elo, priority, t) ==
    LET err == addPlayerError(st, userId, socketId, t) IN
    IF err # "" THEN Throw(st, err)
    ELSE emitQueueStats(
           [st EXCEPT
              !.activeQueue = Append(@,
                  createQueuedPlayer(userId, socketId, elo, priority, t))])

addPlayer(st, userId, socketId, elo, priority, t) ==
    LET err == addPlayerError(st, userId, socketId, t) IN
    IF err # "" THEN Throw(st, err)
    ELSE emitQueueStats(
           [st EXCEPT
              !.activeQueue = Append(@,
                  createQueuedPlayer(userId, socketId, elo, priority, t)),
              !.activeSockets = @ \cup {socketId}])

\* removePlayer that looks the identifier up as a userId only
removePlayerByUserId(st, identifier) ==
    LET q == st.activeQueue
    IN IF QueueHas(q, identifier)
       THEN emitQueueStats(
              [st EXCEPT
                 !.activeSockets = @ \ {QueueGet(q, identifier).socketId},
                 !.activeQueue = QueueDelete(@, identifier)])
       ELSE st

\* removePlayer that also drops the pending matches of the user
removePlayerDropsMatch(st, identifier) ==
    LET st1 == removePlayerByUserId(st, identifier)
        keep == {m \in DOMAIN st.pendingMatches :
                   /\ st.pendingMatches[m].player1.userId # identifier
                   /\ st.pendingMatches[m].player2.userId # identifier}
    IN [st1 EXCEPT
          !.pendingMatches = [m \in keep |-> st.pendingMatches[m]],
          !.timers = [m \in keep \cap DOMAIN st.timers |-> st.timers[m]]]

\* removePlayer that leaves the socketId in activeSockets
removePlayerKeepsSocket(st, identifier) ==
    LET q == st.activeQueue
        bySocket == {i \in 1..Len(q) : q[i].socketId = identifier}
        targetId ==
            IF QueueHas(q, identifier) THEN identifier
            ELSE IF bySocket # {}
                 THEN q[CHOOSE i \in bySocket : \A j \in bySocket : i <= j].userId
                 ELSE identifier
    IN IF QueueHas(q, targetId)
       THEN emitQueueStats([st EXCEPT !.activeQueue = QueueDelete(@, targetId)])
       ELSE st

removePlayer(st, identifier) ==
    LET q == st.activeQueue
        bySocket == {i \in 1..Len(q) : q[i].socketId = identifier}
        targetId ==
            IF QueueHas(q, identifier) THEN identifier
            ELSE IF bySocket # {}
                 THEN q[CHOOSE i \in bySocket : \A j \in bySocket : i <= j].userId
                 ELSE identifier
    IN IF QueueHas(q, targetId)
       THEN emitQueueStats(
              [st EXCEPT
                 !.activeSockets = @ \ {QueueGet(q, targetId).socketId},
                 !.activeQueue = QueueDelete(@, targetId)])
       ELSE st

(***************************************************************************)
(* Ready check: accept / decline / timeout.                                *)
(***************************************************************************)
Participants(match) == {match.player1.userId, match.player2.userId}

\* The check of acceptMatch with || in place of &&
EitherAccepted(match) ==
    match.player1.status = "ACCEPTED" \/ match.player2.status = "ACCEPTED"

BothAccepted(match) ==
    match.player1.status = "ACCEPTED" /\ match.player2.status = "ACCEPTED"

\* The checks of acceptMatch and declineMatch without the participant check
matchErrorNoParticipant(pm, userId, matchId) ==
    IF matchId \notin DOMAIN pm THEN "Match not found or expired" ELSE ""

\* The error acceptMatch and declineMatch throw, "" when they throw none.
matchError(pm, userId, matchId) ==
    IF matchId \notin DOMAIN pm THEN "Match not found or expired"
    ELSE IF userId \notin Participants(pm[matchId])
         THEN "User is not a participant in this match"
    ELSE ""

\* playerRef of acceptMatch: which of the two participants userId is
playerRef(match, userId) ==
    IF match.player1.userId = userId THEN "player1" ELSE "player2"

setStatus(match, ref, status) ==
    IF ref = "player1" THEN [match EXCEPT !.player1.status = status]
    ELSE [match EXCEPT !.player2.status = status]

\* Step 1 without pendingMatches.delete
finalizeMatchClearTimerOnly(st, matchId) ==
    [st EXCEPT !.timers = MapDelete(@, matchId)]

\* Step 1 without clearTimeout
finalizeMatchClearMatchOnly(st, matchId) ==
    [st EXCEPT !.pendingMatches = MapDelete(@, matchId)]

\* Step 1 that clears neither the timer nor the pending match
finalizeMatchClearNothing(st, matchId) == st

\* finalizeMatch, step 1: clearTimeout and removal from pendingMatches
finalizeMatchClear(st, matchId) ==
    [st EXCEPT
       !.timers = MapDelete(@, matchId),
       !.pendingMatches = MapDelete(@, matchId)]

\* The argument of gameService.createGame
createGameInput(matchId, match) ==
    [gameId |-> matchId, player1Id |-> match.player1.userId,
     player2Id |-> match.player2.userId]

\* The argument of matchHistoryRepository.createSessionLog (startedAt left out)
sessionLogInput(matchId, match) ==
    [id |-> matchId, player1Id |-> match.player1.userId,
     player2Id |-> match.player2.userId, status |-> "STARTED"]

\* finalizeMatch whose createSessionLog has no try/catch: a throw of the
\* session log ends finalizeMatch before createGame
finalizeMatchNoCatch(st, matchId, match, logOk) ==
    LET st1 == [finalizeMatchClear(st, matchId) EXCEPT
                  !.closed = MapSet(@, matchId,
                                    [how |-> "accepted", match |-> match]),
                  !.sessionCalls = Append(@, sessionLogInput(matchId, match))]
    IN IF logOk
       THEN [st1 EXCEPT
               !.sessionLog = @ \cup {sessionLogInput(matchId, match)},
               !.gameCalls = Append(@, createGameInput(matchId, match)),
               !.finalizing = MapSet(@, matchId, match)]
       ELSE Throw(st1, "session log failed")

\* finalizeMatch up to its await of createGame.  logOk: createSessionLog
\* does not throw.
finalizeMatch(st, matchId, match, logOk) ==
    LET st1 == finalizeMatchClear(st, matchId) IN
    [st1 EXCEPT
       !.closed = MapSet(@, matchId, [how |-> "accepted", match |-> match]),
       !.sessionCalls = Append(@, sessionLogInput(matchId, match)),
       !.sessionLog = IF logOk THEN @ \cup {sessionLogInput(matchId, match)}
                      ELSE @,
       !.gameCalls = Append(@, createGameInput(matchId, match)),
       !.finalizing = MapSet(@, matchId, match)]

\* acceptMatch returns at its "Ignored duplicate accept" branch
IgnoredAccept(pm, userId, matchId) ==
    /\ matchError(pm, userId, matchId) = ""
    /\ pm[matchId][playerRef(pm[matchId], userId)].status # "PENDING"

\* acceptMatch that tests the two statuses as they were before the accept
acceptMatchStaleCheck(st, userId, matchId, logOk) ==
    LET err == matchError(st.pendingMatches, userId, matchId) IN
    IF err # "" THEN Throw(st, err)
    ELSE
      LET match == st.pendingMatches[matchId]
          ref == playerRef(match, userId)
      IN IF IgnoredAccept(st.pendingMatches, userId, matchId) THEN st
         ELSE
           LET accepted == setStatus(match, ref, "ACCEPTED")
               st1 == [st EXCEPT !.pendingMatches[matchId] = accepted]
           IN IF BothAccepted(match)
              THEN finalizeMatch(st1, matchId, accepted, logOk)
              ELSE st1

acceptMatch(st, userId, matchId, logOk) ==
    LET err == matchError(st.pendingMatches, userId, matchId) IN
    IF err # "" THEN Throw(st, err)
    ELSE
      LET match == st.pendingMatches[matchId]
          ref == playerRef(match, userId)
      IN IF IgnoredAccept(st.pendingMatches, userId, matchId) THEN st
         ELSE
           LET accepted == setStatus(match, ref, "ACCEPTED")
               st1 == [st EXCEPT !.pendingMatches[matchId] = accepted]
           IN IF BothAccepted(accepted)
              THEN finalizeMatch(st1, matchId, accepted, logOk)
              ELSE st1

\* handleGameCreationSuccess that addresses both emissions to player1
handleGameCreationSuccessOneSocket(st, match, gameId) ==
    IF ~server THEN st
    ELSE
      LET payload == [gameId |-> gameId, player1Id |-> match.player1.userId,
                      player2Id |-> match.player2.userId]
      IN Emit(Emit(st,
            [to |-> match.player1.socketId, event |-> "match_confirmed",
             payload |-> payload]),
            [to |-> match.player1.socketId, event |-> "match_confirmed",
             payload |-> payload])

handleGameCreationSuccess(st, match, gameId) ==
    IF ~server THEN st
    ELSE
      LET payload == [gameId |-> gameId, player1Id |-> match.player1.userId,
                      player2Id |-> match.player2.userId]
      IN Emit(Emit(st,
            [to |-> match.player1.socketId, event |-> "match_confirmed",
             payload |-> payload]),
            [to |-> match.player2.socketId, event |-> "match_confirmed",
             payload |-> payload])

\* queue_joined as the service emits it after a priority re-queue
priorityJoined(p, t) ==
    [to |-> p.socketId, event |-> "queue_joined",
     payload |-> [userId |-> p.userId, elo |-> p.elo, timestamp |-> t,
                  priority |-> TRUE]]

\* this.addPlayer(p.userId, p.socketId, p.elo, true).catch(log)
requeue(st, p, t) ==
    [addPlayer(st, p.userId, p.socketId, p.elo, TRUE, t) EXCEPT !.error = ""]

\* One iteration of the re-queue loop of handleGameCreationFailure
requeueAfterFailure(st, p, t) ==
    LET st1 == requeue(st, p, t) IN
    IF server THEN Emit(st1, priorityJoined(p, t)) ELSE st1

\* handleGameCreationFailure whose addPlayer calls have no catch: the first
\* re-queue that throws ends the loop
handleGameCreationFailureNoCatch(st, matchId, match, errorCode, errorMessage, t) ==
    LET failurePayload ==
            [matchId |-> matchId, reason |-> "game_creation_failed",
             errorCode |-> errorCode, message |-> errorMessage]
        st1 == Emit(Emit(st,
                 [to |-> match.player1.socketId, event |-> "match_failed",
                  payload |-> failurePayload]),
                 [to |-> match.player2.socketId, event |-> "match_failed",
                  payload |-> failurePayload])
        a == addPlayer(st1, match.player1.userId, match.player1.socketId,
                       match.player1.elo, TRUE, t)
        a1 == Emit(a, priorityJoined(match.player1, t))
        b == addPlayer(a1, match.player2.userId, match.player2.socketId,
                       match.player2.elo, TRUE, t)
    IN IF a.error # "" THEN [a EXCEPT !.error = ""]
       ELSE IF b.error # "" THEN [b EXCEPT !.error = ""]
       ELSE Emit(b, priorityJoined(match.player2, t))

handleGameCreationFailure(st, matchId, match, errorCode, errorMessage, t) ==
    LET failurePayload ==
            [matchId |-> matchId, reason |-> "game_creation_failed",
             errorCode |-> errorCode, message |-> errorMessage]
        st1 == IF server
               THEN Emit(Emit(st,
                      [to |-> match.player1.socketId, event |-> "match_failed",
                       payload |-> failurePayload]),
                      [to |-> match.player2.socketId, event |-> "match_failed",
                       payload |-> failurePayload])
               ELSE st
    IN requeueAfterFailure(requeueAfterFailure(st1, match.player1, t),
                           match.player2, t)

\* finalizeMatch that hands on the matchId in place of the gameId of the result
finalizeMatchResumeOwnId(st, matchId, result, t) ==
    LET match == st.finalizing[matchId]
        st1 == [st EXCEPT !.finalizing = MapDelete(@, matchId)]
    IN emitQueueStats(
         IF result.success
         THEN handleGameCreationSuccess(st1, match, matchId)
         ELSE handleGameCreationFailure(st1, matchId, match, result.error,
                                        result.message, t))

\* finalizeMatch after the await: the reaction to the createGame result
finalizeMatchResume(st, matchId, result, t) ==
    LET match == st.finalizing[matchId]
        st1 == [st EXCEPT !.finalizing = MapDelete(@, matchId)]
    IN emitQueueStats(
         IF result.success
         THEN handleGameCreationSuccess(st1, match, result.gameId)
         ELSE handleGameCreationFailure(st1, matchId, match, result.error,
                                        result.message, t))

\* The body of cancelMatch's forEach whose addPenalty has no try/catch: a
\* throw of the penalty store ends the iteration there
cancelPlayerNoCatch(st, matchId, p, guiltySet, reason, penFail, t) ==
    IF st.error # "" THEN st
    ELSE IF p.userId \in guiltySet /\ p.userId \in penFail
    THEN Throw([st EXCEPT
                  !.penaltyCalls = Append(@,
                      [userId |-> p.userId,
                       durationSeconds |-> PENALTY_DURATION_SECONDS,
                       reason |-> reason])],
               "penalty store failed")
    ELSE IF p.userId \in guiltySet
    THEN
      LET st1 == [st EXCEPT
                    !.penaltyCalls = Append(@,
                        [userId |-> p.userId,
                         durationSeconds |-> PENALTY_DURATION_SECONDS,
                         reason |-> reason]),
                    !.penalties = addPenalty(@, p.userId, PENALTY_DURATION_SECONDS,
                                             reason, t)]
      IN IF server
         THEN Emit(st1, [to |-> p.socketId, event |-> "match_cancelled",
                         payload |-> [reason |-> "penalty_applied",
                                      matchId |-> matchId]])
         ELSE st1
    ELSE
      LET st1 == requeue(st, p, t) IN
      IF server
      THEN Emit(Emit(st1,
             [to |-> p.socketId, event |-> "match_cancelled",
              payload |-> [reason |-> "opponent_declined",
                           matchId |-> matchId]]),
             priorityJoined(p, t))
      ELSE st1

\* The body of cancelMatch's forEach for one participant.  penFail holds the
\* users for whom the penalty store throws.
cancelPlayer(st, matchId, p, guiltySet, reason, penFail, t) ==
    IF p.userId \in guiltySet
    THEN
      LET st1 == [st EXCEPT
                    !.penaltyCalls = Append(@,
                        [userId |-> p.userId,
                         durationSeconds |-> PENALTY_DURATION_SECONDS,
                         reason |-> reason]),
                    !.penalties =
                        IF p.userId \in penFail THEN @
                        ELSE addPenalty(@, p.userId, PENALTY_DURATION_SECONDS,
                                        reason, t)]
      IN IF server
         THEN Emit(st1, [to |-> p.socketId, event |-> "match_cancelled",
                         payload |-> [reason |-> "penalty_applied",
                                      matchId |-> matchId]])
         ELSE st1
    ELSE
      LET st1 == requeue(st, p, t) IN
      IF server
      THEN Emit(Emit(st1,
             [to |-> p.socketId, event |-> "match_cancelled",
              payload |-> [reason |-> "opponent_declined",
                           matchId |-> matchId]]),
             priorityJoined(p, t))
      ELSE st1

\* The reason string cancelMatch hands to addPenalty
penaltyReason(reason) == "Matchmaking abuse: " \o reason

cancelMatch(st, matchId, match, faultyUserIds, reason, penFail, t) ==
    LET st0 == [finalizeMatchClear(st, matchId) EXCEPT
                  !.closed = MapSet(@, matchId,
                                    [how |-> reason, match |-> match])]
        st1 == cancelPlayer(st0, matchId, match.player1, faultyUserIds,
                            penaltyReason(reason), penFail, t)
        st2 == cancelPlayer(st1, matchId, match.player2, faultyUserIds,
                            penaltyReason(reason), penFail, t)
    IN emitQueueStats(st2)

\* declineMatch that blames the participants who have not replied, as
\* handleMatchTimeout does
declineMatchBlamesPending(st, userId, matchId, penFail, t) ==
    LET err == matchError(st.pendingMatches, userId, matchId) IN
    IF err # "" THEN Throw(st, err)
    ELSE cancelMatch(st, matchId, st.pendingMatches[matchId],
                     {p.userId : p \in {q \in {st.pendingMatches[matchId].player1,
                                                st.pendingMatches[matchId].player2} :
                                          q.status = "PENDING"}},
                     "declined", penFail, t)

\* declineMatch that only records the decline and leaves the match to its
\* timer
declineMatchMarksOnly(st, userId, matchId, penFail, t) ==
    LET err == matchError(st.pendingMatches, userId, matchId) IN
    IF err # "" THEN Throw(st, err)
    ELSE [st EXCEPT !.pendingMatches[matchId] =
            setStatus(@, playerRef(@, userId), "DECLINED")]

declineMatch(st, userId, matchId, penFail, t) ==
    LET err == matchError(st.pendingMatches, userId, matchId) IN
    IF err # "" THEN Throw(st, err)
    ELSE cancelMatch(st, matchId, st.pendingMatches[matchId], {userId},
                     "declined", penFail, t)

\* faultyUsers that holds both participants, whatever their status
faultyUsersBoth(match) == {match.player1.userId, match.player2.userId}

\* faultyUsers of handleMatchTimeout
faultyUsers(match) ==
    {p.userId : p \in {q \in {match.player1, match.player2} :
                         q.status = "PENDING"}}

\* The timeout callback that spares a match with an accepted participant
handleMatchTimeoutUnlessAccepted(st, matchId, penFail, t) ==
    IF matchId \notin DOMAIN st.pendingMatches THEN st
    ELSE IF "ACCEPTED" \in {st.pendingMatches[matchId].player1.status,
                            st.pendingMatches[matchId].player2.status}
    THEN st
    ELSE cancelMatch(st, matchId, st.pendingMatches[matchId],
                     faultyUsers(st.pendingMatches[matchId]), "timeout",
                     penFail, t)

handleMatchTimeout(st, matchId, penFail, t) ==
    IF matchId \notin DOMAIN st.pendingMatches THEN st
    ELSE cancelMatch(st, matchId, st.pendingMatches[matchId],
                     faultyUsers(st.pendingMatches[matchId]), "timeout",
                     penFail, t)

(***************************************************************************)
(* Matcher tick.                                                           *)
(***************************************************************************)
\* The comparator without its priority rule: by rating only
SortsBeforeByElo(a, b) == a.elo < b.elo

\* The comparator of candidates.sort: a negative result, a sorts before b
SortsBefore(a, b) ==
    \/ a.priority /\ ~b.priority
    \/ a.priority = b.priority /\ a.elo < b.elo

\* Array.prototype.sort is stable: p goes before the first element it
\* sorts before, after everything else.
InsertSorted(sorted, p) ==
    LET later == {k \in 1..Len(sorted) : SortsBefore(p, sorted[k])}
        pos == IF later = {} THEN Len(sorted) + 1
               ELSE CHOOSE k \in later : \A j \in later : k <= j
    IN SubSeq(sorted, 1, pos - 1) \o <<p>> \o SubSeq(sorted, pos, Len(sorted))

RECURSIVE SortCandidates(_)
SortCandidates(q) ==
    IF q = <<>> THEN <<>>
    ELSE InsertSorted(SortCandidates(SubSeq(q, 1, Len(q) - 1)), q[Len(q)])

\* Range expansion that subtracts the step
ExpandShrinks(playerA, t) ==
    IF t - playerA.joinTime > EXPANSION_INTERVAL_MS * playerA.rangeFactor
    THEN [playerA EXCEPT !.rangeFactor = @ - EXPANSION_STEP]
    ELSE playerA

\* Range expansion that starts when the wait reaches the interval
ExpandAtInterval(playerA, t) ==
    IF t - playerA.joinTime >= EXPANSION_INTERVAL_MS * playerA.rangeFactor
    THEN [playerA EXCEPT !.rangeFactor = @ + EXPANSION_STEP]
    ELSE playerA

\* Range expansion by as many steps as whole intervals have passed
ExpandCatchUp(playerA, t) ==
    IF t - playerA.joinTime > EXPANSION_INTERVAL_MS * playerA.rangeFactor
    THEN [playerA EXCEPT !.rangeFactor =
            @ + EXPANSION_STEP * ((t - playerA.joinTime) \div EXPANSION_INTERVAL_MS)]
    ELSE playerA

\* Range expansion that stops after the first step
ExpandOnce(playerA, t) ==
    IF /\ t - playerA.joinTime > EXPANSION_INTERVAL_MS * playerA.rangeFactor
       /\ playerA.rangeFactor = 1
    THEN [playerA EXCEPT !.rangeFactor = @ + EXPANSION_STEP]
    ELSE playerA

\* Range expansion of the active side
Expand(playerA, t) ==
    IF t - playerA.joinTime > EXPANSION_INTERVAL_MS * playerA.rangeFactor
    THEN [playerA EXCEPT !.rangeFactor = @ + EXPANSION_STEP]
    ELSE playerA

Abs(x) == IF x < 0 THEN -x ELSE x

toleranceA(playerA) ==
    BASE_TOLERANCE * playerA.rangeFactor * (IF playerA.priority THEN 2 ELSE 1)

\* toleranceB with the priority bonus of the active side
toleranceBWithBonus(playerB) ==
    BASE_TOLERANCE * playerB.rangeFactor * (IF playerB.priority THEN 2 ELSE 1)

toleranceB(playerB) == BASE_TOLERANCE * playerB.rangeFactor

\* The test of the inner loop
Compatible(playerA, playerB) ==
    LET eloDiff == Abs(playerB.elo - playerA.elo) IN
    eloDiff <= toleranceA(playerA) /\ eloDiff <= toleranceB(playerB)

\* The inner loop that takes the last compatible player instead of the first
FirstMatchLast(candidates, i, matchedIds) ==
    LET ok == {j \in (i + 1)..Len(candidates) :
                 /\ candidates[j].userId \notin matchedIds
                 /\ Compatible(candidates[i], candidates[j])}
    IN IF ok = {} THEN 0 ELSE CHOOSE j \in ok : \A k \in ok : j >= k

\* The inner loop that looks at the next candidate only
FirstMatchAdjacent(candidates, i, matchedIds) ==
    IF /\ i + 1 <= Len(candidates)
       /\ candidates[i + 1].userId \notin matchedIds
       /\ Compatible(candidates[i], candidates[i + 1])
    THEN i + 1
    ELSE 0

\* The inner loop: the first j > i, not matched, compatible with A; 0 if none
FirstMatch(candidates, i, matchedIds) ==
    LET ok == {j \in (i + 1)..Len(candidates) :
                 /\ candidates[j].userId \notin matchedIds
                 /\ Compatible(candidates[i], candidates[j])}
    IN IF ok = {} THEN 0 ELSE CHOOSE j \in ok : \A k \in ok : j <= k

\* The outer loop from index i on: [candidates |-> the players with their
\* rangeFactor after the tick, pairs |-> the pairs in the order found]
RECURSIVE PairLoop(_, _, _, _, _)
PairLoop(candidates, i, matchedIds, pairs, t) ==
    IF i > Len(candidates) THEN [candidates |-> candidates, pairs |-> pairs]
    ELSE IF candidates[i].userId \in matchedIds
         THEN PairLoop(candidates, i + 1, matchedIds, pairs, t)
    ELSE
      LET expanded == [candidates EXCEPT ![i] = Expand(@, t)]
          j == FirstMatch(expanded, i, matchedIds)
      IN IF j = 0 THEN PairLoop(expanded, i + 1, matchedIds, pairs, t)
         ELSE PairLoop(expanded, i + 1,
                       matchedIds \cup {expanded[i].userId, expanded[j].userId},
                       Append(pairs, <<expanded[i], expanded[j]>>), t)

\* The pending match handleMatchFound builds
newPendingMatch(p1, p2, t) ==
    [expiresAt |-> t + MATCH_ACCEPT_TIMEOUT_MS,
     player1 |-> [userId |-> p1.userId, socketId |-> p1.socketId,
                  elo |-> p1.elo, status |-> "PENDING"],
     player2 |-> [userId |-> p2.userId, socketId |-> p2.socketId,
                  elo |-> p2.elo, status |-> "PENDING"]]

handleMatchFound(st, p1, p2, matchId, t) ==
    LET match == newPendingMatch(p1, p2, t)
        st1 == [st EXCEPT
                  !.activeQueue = QueueDelete(QueueDelete(@, p1.userId), p2.userId),
                  !.activeSockets = (@ \ {p1.socketId}) \ {p2.socketId},
                  !.timers = MapSet(@, matchId, t + MATCH_ACCEPT_TIMEOUT_MS),
                  !.pendingMatches = MapSet(@, matchId, match)]
        st2 == IF server
               THEN Emit(Emit(st1,
                      [to |-> p1.socketId, event |-> "match_proposal",
                       payload |-> [matchId |-> matchId,
                                    expiresAt |-> match.expiresAt,
                                    opponentElo |-> p2.elo]]),
                      [to |-> p2.socketId, event |-> "match_proposal",
                       payload |-> [matchId |-> matchId,
                                    expiresAt |-> match.expiresAt,
                                    opponentElo |-> p1.elo]])
               ELSE st1
    IN emitQueueStats(st2)

\* handleMatchFound for every pair of the tick, in the order found
RECURSIVE MatchAll(_, _, _, _)
MatchAll(st, pairs, firstId, t) ==
    IF pairs = <<>> THEN st
    ELSE MatchAll(handleMatchFound(st, pairs[1][1], pairs[1][2], firstId, t),
                  Tail(pairs), firstId + 1, t)

\* The outcome of the pairing loop on the current queue
TickPairing(q, t) == PairLoop(SortCandidates(q), 1, {}, <<>>, t)

\* matchmakingLoop at time t
matchmakingLoop(st, firstId, t) ==
    IF Len(st.activeQueue) < 2 THEN st
    ELSE
      LET r == TickPairing(st.activeQueue, t)
          \* playerA.rangeFactor += EXPANSION_STEP writes the queued object
          grown == [i \in 1..Len(st.activeQueue) |->
                      CHOOSE c \in Range(r.candidates) :
                         c.userId = st.activeQueue[i].userId]
      IN MatchAll([st EXCEPT !.activeQueue = grown], r.pairs, firstId, t)

(***************************************************************************)
(* MatchmakingGateway: the handlers of the inbound events.                 *)
(***************************************************************************)
\* socket.emit('error', {message})
errorEvent(s, message) ==
    [to |-> s, event |-> "error", payload |-> [message |-> message]]

\* try { await service call } catch (error) { socket.emit('error', ...) }
catchError(st, s) ==
    IF st.error = "" THEN st
    ELSE Emit([st EXCEPT !.error = ""], errorEvent(s, st.error))

\* handleDisconnect that also drops the pending matches of the user, with
\* their timers
handleDisconnectCancels(st, s) ==
    LET st1 == removePlayer(st, SocketUser(s))
        kept == {m \in DOMAIN st1.pendingMatches :
                   SocketUser(s) \notin {st1.pendingMatches[m].player1.userId,
                                         st1.pendingMatches[m].player2.userId}}
    IN [st1 EXCEPT !.pendingMatches = [m \in kept |-> st1.pendingMatches[m]],
                   !.timers = [m \in kept \cap DOMAIN st1.timers |-> st1.timers[m]]]

handleDisconnect(st, s) == removePlayer(st, SocketUser(s))

\* handleJoinQueue that passes priority = true to addPlayer
handleJoinQueuePriority(st, s, elo, t) ==
    LET userId == SocketUser(s)
        effectiveElo == IF elo = NoElo THEN getUserElo(userId) ELSE elo
        st1 == addPlayer(st, userId, s, effectiveElo, TRUE, t)
    IN IF st1.error = ""
       THEN Emit(st1, [to |-> s, event |-> "queue_joined",
                       payload |-> [userId |-> userId, elo |-> effectiveElo,
                                    timestamp |-> t]])
       ELSE catchError(st1, s)

\* handleJoinQueue with a valid payload; elo = NoElo when the field is absent
handleJoinQueue(st, s, elo, t) ==
    LET userId == SocketUser(s)
        effectiveElo == IF elo = NoElo THEN getUserElo(userId) ELSE elo
        st1 == addPlayer(st, userId, s, effectiveElo, FALSE, t)
    IN IF st1.error = ""
       THEN Emit(st1, [to |-> s, event |-> "queue_joined",
                       payload |-> [userId |-> userId, elo |-> effectiveElo,
                                    timestamp |-> t]])
       ELSE catchError(st1, s)

\* A join_queue payload: nothing (undefined or null), a falsy scalar (0, "",
\* false), another scalar or an array, or an object; the elo of an object
\* is absent, an integer, a number with a fraction or a string
JoinPayload(kind, eloType, elo) == [kind |-> kind, eloType |-> eloType, elo |-> elo]

JoinPayloads ==
    {JoinPayload(kind, "undefined", 0) : kind \in {"undefined", "falsy", "scalar", "object"}}
    \cup {JoinPayload("object", "integer", elo) : elo \in {-5, 0, 1540}}
    \cup {JoinPayload("object", eloType, 1540) : eloType \in {"number", "string"}}

\* payload || {}
payloadData(payload) ==
    IF payload.kind \in {"undefined", "falsy"}
    THEN JoinPayload("object", "undefined", 0)
    ELSE payload

\* JoinQueueSchema: an object whose elo, if present, is an integer >= 0
validateJoinQueue(data) ==
    /\ data.kind = "object"
    /\ data.eloType # "undefined" => data.eloType = "integer" /\ data.elo >= 0

\* socket.emit('error', {message: 'Invalid payload', details})
invalidPayloadEvent(s) ==
    [to |-> s, event |-> "error",
     payload |-> [message |-> "Invalid payload", details |-> "validateJoinQueue.errors"]]

\* handleJoinQueue that does not validate the payload
handleJoinQueuePayloadUnchecked(st, s, payload, t) ==
    LET data == payloadData(payload)
    IN handleJoinQueue(st, s, IF data.eloType = "undefined" THEN NoElo ELSE data.elo, t)

\* handleJoinQueue for any payload: the default, the validation, then the
\* try block with payloadData.elo
handleJoinQueuePayload(st, s, payload, t) ==
    LET data == payloadData(payload)
    IN IF ~validateJoinQueue(data) THEN Emit(st, invalidPayloadEvent(s))
       ELSE handleJoinQueue(st, s,
                            IF data.eloType = "undefined" THEN NoElo ELSE data.elo, t)

handleLeaveQueue(st, s, t) ==
    Emit(removePlayer(st, SocketUser(s)),
         [to |-> s, event |-> "queue_left",
          payload |-> [userId |-> SocketUser(s), timestamp |-> t]])

handleAcceptMatch(st, s, matchId, logOk) ==
    catchError(acceptMatch(st, SocketUser(s), matchId, logOk), s)

handleDeclineMatch(st, s, matchId, penFail, t) ==
    catchError(declineMatch(st, SocketUser(s), matchId, penFail, t), s)

(***************************************************************************)
(* Initial state: the service is constructed and running, the sockets are  *)
(* connected, nobody has joined.                                           *)
(***************************************************************************)
Init ==
    /\ now = 0
    /\ server = TRUE
    /\ matchmakingInterval = TRUE
    /\ activeQueue = <<>>
    /\ activeSockets = {}
    /\ pendingMatches = <<>>
    /\ timers = <<>>
    /\ finalizing = <<>>
    /\ penalties = {}
    /\ nextMatchId = 1
    /\ sock = [s \in AllSockets |-> "connected"]
    /\ ticks = 0
    /\ penaltyCalls = <<>>
    /\ gameCalls = <<>>
    /\ sessionCalls = <<>>
    /\ sessionLog = {}
    /\ closed = <<>>
    /\ sent = [m \in MatchIds |-> <<>>]

\* The fields of st become the next state
Commit(st) ==
    /\ activeQueue' = st.activeQueue
    /\ activeSockets' = st.activeSockets
    /\ pendingMatches' = st.pendingMatches
    /\ timers' = st.timers
    /\ finalizing' = st.finalizing
    /\ penalties' = st.penalties
    /\ penaltyCalls' = st.penaltyCalls
    /\ gameCalls' = st.gameCalls
    /\ sessionCalls' = st.sessionCalls
    /\ sessionLog' = st.sessionLog
    /\ closed' = st.closed

\* The events of a step that the service addressed to a socket
ToParticipants(events) ==
    SelectSeq(events, LAMBDA e : e.to # "broadcast" /\ e.event # "error")

\* A step that handles match matchId: its events are recorded for the match
CommitMatch(st, matchId) ==
    /\ Commit(st)
    /\ sent' = [sent EXCEPT ![matchId] = @ \o ToParticipants(st.emitted)]

(***************************************************************************)
(* Actions: one per handler, callback or continuation.                     *)
(***************************************************************************)
Disconnect(s) ==
    /\ matchmakingInterval
    /\ sock[s] = "connected"
    /\ sock' = [sock EXCEPT ![s] = "closed"]
    /\ Commit(handleDisconnect(Svc, s))
    /\ UNCHANGED <<now, server, matchmakingInterval, nextMatchId, ticks, sent>>

JoinQueue(s, elo) ==
    /\ matchmakingInterval
    /\ sock[s] = "connected"
    /\ Commit(handleJoinQueue(Svc, s, elo, now))
    /\ UNCHANGED <<now, server, matchmakingInterval, nextMatchId, sock, ticks,
                   sent>>

LeaveQueue(s) ==
    /\ matchmakingInterval
    /\ sock[s] = "connected"
    /\ Commit(handleLeaveQueue(Svc, s, now))
    /\ UNCHANGED <<now, server, matchmakingInterval, nextMatchId, sock, ticks,
                   sent>>

AcceptMatch(s, matchId, logOk) ==
    /\ matchmakingInterval
    /\ sock[s] = "connected"
    /\ CommitMatch(handleAcceptMatch(Svc, s, matchId, logOk), matchId)
    /\ UNCHANGED <<now, server, matchmakingInterval, nextMatchId, sock, ticks>>

DeclineMatch(s, matchId, penFail) ==
    /\ matchmakingInterval
    /\ sock[s] = "connected"
    /\ CommitMatch(handleDeclineMatch(Svc, s, matchId, penFail, now), matchId)
    /\ UNCHANGED <<now, server, matchmakingInterval, nextMatchId, sock, ticks>>

\* The answers of gameService.createGame that are tried
GameResults(matchId) ==
    {[success |-> TRUE, gameId |-> OtherGameId, message |-> "Game created successfully"],
     [success |-> FALSE, error |-> "PLAYER_ALREADY_IN_GAME",
      message |-> "Player is already in a game"]}

\* createGame answers: finalizeMatch resumes after its await
GameReply(matchId, result) ==
    /\ matchmakingInterval
    /\ matchId \in DOMAIN finalizing
    /\ CommitMatch(finalizeMatchResume(Svc, matchId, result, now), matchId)
    /\ UNCHANGED <<now, server, matchmakingInterval, nextMatchId, sock, ticks>>

\* The setTimeout callback of a pending match runs: the handle is spent
MatchTimeout(matchId, penFail) ==
    /\ matchmakingInterval
    /\ matchId \in DOMAIN timers
    /\ now >= timers[matchId]
    /\ CommitMatch(handleMatchTimeout([Svc EXCEPT !.timers = MapDelete(@, matchId)],
                                      matchId, penFail, now), matchId)
    /\ UNCHANGED <<now, server, matchmakingInterval, nextMatchId, sock, ticks>>

\* The setInterval callback: TICK_RATE_MS have passed and matchmakingLoop
\* runs.  A timeout that is due runs before the clock moves on.
Tick ==
    /\ matchmakingInterval
    /\ ticks < MaxTicks
    /\ \A m \in DOMAIN timers : timers[m] > now
    /\ ticks' = ticks + 1
    /\ now' = now + TICK_RATE_MS
    /\ LET st == matchmakingLoop(Svc, nextMatchId, now')
           made == Cardinality(DOMAIN st.pendingMatches)
                     - Cardinality(DOMAIN pendingMatches)
       IN /\ nextMatchId + made - 1 <= MaxMatches
          /\ Commit(st)
          /\ nextMatchId' = nextMatchId + made
          /\ sent' = [m \in MatchIds |->
                        sent[m] \o SelectSeq(ToParticipants(st.emitted),
                                             LAMBDA e : e.payload.matchId = m)]
    /\ UNCHANGED <<server, matchmakingInterval, sock>>

\* The times after now at which a ready-check timeout is or was due: the
\* armed ones, and those of the matches that left before their expiry
DueTimes ==
    {d \in {timers[m] : m \in DOMAIN timers}
            \cup {closed[m].match.expiresAt : m \in DOMAIN closed} : d > now}

NextDue == CHOOSE d \in DueTimes : \A e \in DueTimes : d <= e

\* The interval callback runs, once per TICK_RATE_MS, until the next of
\* these times, and no event arrives meanwhile: with fewer than two players
\* waiting each of these runs returns at once.
IdleTicks ==
    /\ matchmakingInterval
    /\ ticks < MaxTicks
    /\ Len(activeQueue) < 2
    /\ DueTimes # {}
    /\ NextDue > now + TICK_RATE_MS
    /\ (NextDue - now) % TICK_RATE_MS = 0
    /\ ticks' = ticks + 1
    /\ now' = NextDue
    /\ UNCHANGED <<server, matchmakingInterval, svcVars, nextMatchId, sock,
                   sent>>

\* The store failures that are tried: none
NoFailure == {}

Next ==
    \/ \E s \in Sockets : Disconnect(s)
    \/ \E s \in Sockets, elo \in PayloadElos : JoinQueue(s, elo)
    \/ \E s \in Sockets : LeaveQueue(s)
    \/ \E s \in Sockets, m \in MatchIds : AcceptMatch(s, m, TRUE)
    \/ \E s \in Sockets, m \in MatchIds : DeclineMatch(s, m, NoFailure)
    \/ \E m \in MatchIds : \E result \in GameResults(m) : GameReply(m, result)
    \/ \E m \in MatchIds : MatchTimeout(m, NoFailure)
    \/ Tick
    \/ IdleTicks

Spec == Init /\ [][Next]_vars

(***************************************************************************)
(* The service on its own: its public methods are called directly, with    *)
(* any userId, socketId and priority flag, as its unit tests call them.    *)
(***************************************************************************)
\* await service.addPlayer(userId, socketId, elo, priority): a throw goes to
\* the caller
AddPlayer(userId, socketId, elo, priority) ==
    /\ matchmakingInterval
    /\ Commit(addPlayer(Svc, userId, socketId, elo, priority, now))
    /\ UNCHANGED <<now, server, matchmakingInterval, nextMatchId, sock, ticks,
                   sent>>

\* service.removePlayer(identifier)
RemovePlayer(identifier) ==
    /\ matchmakingInterval
    /\ Commit(removePlayer(Svc, identifier))
    /\ UNCHANGED <<now, server, matchmakingInterval, nextMatchId, sock, ticks,
                   sent>>

\* The identifiers removePlayer is called with: userIds and socketIds
Identifiers == Users \cup AllSockets

NextService ==
    \/ \E u \in Users, s \in Sockets, priority \in BOOLEAN :
          AddPlayer(u, s, getUserElo(u), priority)
    \/ \E id \in Identifiers : RemovePlayer(id)
    \/ \E s \in Sockets, m \in MatchIds : DeclineMatch(s, m, NoFailure)
    \/ Tick

SpecService == Init /\ [][NextService]_vars


(***************************************************************************)
(* The matcher over longer waits: players join with any rating of          *)
(* TickElos and any priority flag, and the interval callback also runs     *)
(* for a whole expansion interval without an event in between.             *)
(***************************************************************************)
MaxBursts == 1

\* The ratings players join with
TickElos == {1500, 1560}

\* The socket a user connected with
OwnSocket(userId) == CHOOSE s \in Sockets : SocketUser(s) = userId

\* matchmakingLoop run n times in a row, TICK_RATE_MS apart, the first run
\* at t + TICK_RATE_MS
RECURSIVE RunTicks(_, _, _, _)
RunTicks(st, firstId, t, n) ==
    IF n = 0 THEN st
    ELSE LET st1 == matchmakingLoop(st, firstId, t + TICK_RATE_MS)
             made == Cardinality(DOMAIN st1.pendingMatches)
                       - Cardinality(DOMAIN st.pendingMatches)
         IN RunTicks(st1, firstId + made, t + TICK_RATE_MS, n - 1)

\* The number of runs of the interval callback in one expansion interval
BurstRuns == EXPANSION_INTERVAL_MS \div TICK_RATE_MS

\* The interval callback runs for EXPANSION_INTERVAL_MS, once per
\* TICK_RATE_MS, and no event arrives and no timeout is due meanwhile.
TickBurst ==
    /\ matchmakingInterval
    /\ now - ticks * TICK_RATE_MS < MaxBursts * EXPANSION_INTERVAL_MS
    /\ \A m \in DOMAIN timers : timers[m] > now + EXPANSION_INTERVAL_MS
    /\ now' = now + EXPANSION_INTERVAL_MS
    /\ LET st == RunTicks(Svc, nextMatchId, now, BurstRuns)
           made == Cardinality(DOMAIN st.pendingMatches)
                     - Cardinality(DOMAIN pendingMatches)
       IN /\ nextMatchId + made - 1 <= MaxMatches
          /\ Commit(st)
          /\ nextMatchId' = nextMatchId + made
          /\ sent' = [m \in MatchIds |->
                        sent[m] \o SelectSeq(ToParticipants(st.emitted),
                                             LAMBDA e : e.payload.matchId = m)]
    /\ UNCHANGED <<server, matchmakingInterval, sock, ticks>>

NextTick ==
    \/ \E u \in Users, elo \in TickElos, priority \in BOOLEAN :
          AddPlayer(u, OwnSocket(u), elo, priority)
    \/ \E u \in Users : RemovePlayer(u)
    \/ Tick
    \/ TickBurst

SpecTick == Init /\ [][NextTick]_vars

(***************************************************************************)
(* The matcher over a long wait: two users join with any rating of         *)
(* WaitElos and the interval callback runs once per TICK_RATE_MS.          *)
(***************************************************************************)
MaxWaitTicks == 33

\* The ratings the two users send with join_queue
WaitElos == {1000, 1100, 1200}

\* The sockets of the two users
WaitSockets == {"sA", "sB"}

\* The setInterval callback, as Tick, counted against MaxWaitTicks
WaitTick ==
    /\ matchmakingInterval
    /\ ticks < MaxWaitTicks
    /\ \A m \in DOMAIN timers : timers[m] > now
    /\ ticks' = ticks + 1
    /\ now' = now + TICK_RATE_MS
    /\ LET st == matchmakingLoop(Svc, nextMatchId, now')
           made == Cardinality(DOMAIN st.pendingMatches)
                     - Cardinality(DOMAIN pendingMatches)
       IN /\ nextMatchId + made - 1 <= MaxMatches
          /\ Commit(st)
          /\ nextMatchId' = nextMatchId + made
          /\ sent' = [m \in MatchIds |->
                        sent[m] \o SelectSeq(ToParticipants(st.emitted),
                                             LAMBDA e : e.payload.matchId = m)]
    /\ UNCHANGED <<server, matchmakingInterval, sock>>

NextWait ==
    \/ \E s \in WaitSockets, elo \in WaitElos : JoinQueue(s, elo)
    \/ WaitTick

SpecWait == Init /\ [][NextWait]_vars

(***************************************************************************)
(* The service with failing collaborators: the penalty store and the       *)
(* session log may throw, and an emit of handleMatchFound may throw while  *)
(* the interval callback runs.                                             *)
(***************************************************************************)
\* The users for whom penaltyRepository.addPenalty throws, per cancel
PenaltyFailures == {{}, {"A"}, {"A", "B", "C"}}

\* The position of user userId in candidates
IndexOf(candidates, userId) ==
    CHOOSE i \in 1..Len(candidates) : candidates[i].userId = userId

\* handleMatchFound whose emit number at throws: the indices and the timer
\* are written, the emits before it are done, the rest is skipped
handleMatchFoundThrows(st, p1, p2, matchId, t, at) ==
    LET match == newPendingMatch(p1, p2, t)
        st1 == [st EXCEPT
                  !.activeQueue = QueueDelete(QueueDelete(@, p1.userId), p2.userId),
                  !.activeSockets = (@ \ {p1.socketId}) \ {p2.socketId},
                  !.timers = MapSet(@, matchId, t + MATCH_ACCEPT_TIMEOUT_MS),
                  !.pendingMatches = MapSet(@, matchId, match)]
        proposals == <<[to |-> p1.socketId, event |-> "match_proposal",
                        payload |-> [matchId |-> matchId,
                                     expiresAt |-> match.expiresAt,
                                     opponentElo |-> p2.elo]],
                       [to |-> p2.socketId, event |-> "match_proposal",
                        payload |-> [matchId |-> matchId,
                                     expiresAt |-> match.expiresAt,
                                     opponentElo |-> p1.elo]]>>
    IN Throw([st1 EXCEPT !.emitted = @ \o SubSeq(proposals, 1, at - 1)],
             "emit failed")

\* matchmakingLoop at time t when the handleMatchFound of its first pair
\* throws: the players up to the first of the pair have their rangeFactor
\* of this tick, the loop stops there and the exception leaves it
matchmakingLoopThrows(st, firstId, t, at) ==
    LET r == TickPairing(st.activeQueue, t)
        sorted == SortCandidates(st.activeQueue)
        last == IndexOf(sorted, r.pairs[1][1].userId)
        grown == [i \in 1..Len(st.activeQueue) |->
                    LET k == IndexOf(sorted, st.activeQueue[i].userId)
                    IN IF k <= last THEN r.candidates[k] ELSE sorted[k]]
    IN handleMatchFoundThrows([st EXCEPT !.activeQueue = grown],
                              r.pairs[1][1], r.pairs[1][2], firstId, t, at)

\* The interval callback is () => this.matchmakingLoop(): nothing catches
\* what the loop throws, the exception is uncaught and ends the process
\* with its interval.
TickThrows(at) ==
    /\ matchmakingInterval
    /\ server
    /\ ticks < MaxTicks
    /\ \A m \in DOMAIN timers : timers[m] > now
    /\ Len(activeQueue) >= 2
    /\ TickPairing(activeQueue, now + TICK_RATE_MS).pairs # <<>>
    /\ nextMatchId <= MaxMatches
    /\ ticks' = ticks + 1
    /\ now' = now + TICK_RATE_MS
    /\ LET st == matchmakingLoopThrows(Svc, nextMatchId, now', at)
       IN /\ Commit(st)
          /\ sent' = [sent EXCEPT ![nextMatchId] = @ \o ToParticipants(st.emitted)]
    /\ nextMatchId' = nextMatchId + 1
    /\ matchmakingInterval' = FALSE
    /\ UNCHANGED <<server, sock>>

\* Every action runs in the live process only
NextFaults ==
    \/ \E s \in Sockets : JoinQueue(s, NoElo)
    \/ \E s \in Sockets, m \in MatchIds, logOk \in BOOLEAN :
          AcceptMatch(s, m, logOk)
    \/ \E s \in Sockets, m \in MatchIds, penFail \in PenaltyFailures :
          DeclineMatch(s, m, penFail)
    \/ \E m \in MatchIds : \E result \in GameResults(m) : GameReply(m, result)
    \/ \E m \in MatchIds, penFail \in PenaltyFailures : MatchTimeout(m, penFail)
    \/ Tick
    \/ IdleTicks
    \/ \E at \in 1..3 : TickThrows(at)

SpecFaults == Init /\ [][NextFaults]_vars

(***************************************************************************)
(* GameService.createGame: the HTTP client of the Game service.  A JSON    *)
(* value is its type and its content; a message is the sequence of its     *)
(* words.                                                                  *)
(***************************************************************************)
Absent == [t |-> "undefined"]
JsonString(words) == [t |-> "string", v |-> words]
JsonNumber(n) == [t |-> "number", v |-> n]
JsonBoolean(b) == [t |-> "boolean", v |-> b]

\* The bodies the Game service is made to answer with
SuccessBody ==
    [success |-> JsonBoolean(TRUE), gameId |-> JsonString(OtherGameId),
     error |-> Absent,
     message |-> JsonString(<<"Game", "created", "successfully">>)]

BusinessErrors == {"GAME_ALREADY_EXISTS", "PLAYER_ALREADY_IN_GAME", "INVALID_PLAYERS"}

BusinessErrorBody(code) ==
    [success |-> JsonBoolean(FALSE), gameId |-> Absent,
     error |-> JsonString(code),
     message |-> JsonString(<<"Rejected", "by", "the", "Game", "service">>)]

InvalidBodies ==
    <<[SuccessBody EXCEPT !.message = Absent],
      [SuccessBody EXCEPT !.gameId = JsonNumber(12345)],
      [SuccessBody EXCEPT !.success = JsonString(<<"true">>)],
      BusinessErrorBody("UNKNOWN_ERROR")>>

ErrorBodies ==
    <<BusinessErrorBody("GAME_ALREADY_EXISTS"),
      BusinessErrorBody("PLAYER_ALREADY_IN_GAME"),
      BusinessErrorBody("INVALID_PLAYERS")>>

Statuses == <<200, 201, 404, 409, 500, 503>>

\* fetch resolves with status and a body that parses as JSON or does not
Response(status, parses, body) ==
    [kind |-> "response", status |-> status, parses |-> parses, body |-> body]

\* fetch rejects (connection refused, DNS failure) or resolves after the
\* timeout
NoResponse(kind) ==
    [kind |-> kind, status |-> 0, parses |-> FALSE, body |-> SuccessBody]

\* What fetch is made to do, one behaviour per entry: no answer in time,
\* and every status with text that is not JSON, with each error body, with
\* each invalid body and, except for 409, with the success body
Behaviours ==
    <<NoResponse("ECONNREFUSED"), NoResponse("ENOTFOUND"), NoResponse("timeout")>>
    \o [i \in 1..Len(Statuses) |-> Response(Statuses[i], FALSE, SuccessBody)]
    \o [i \in 1..(Len(Statuses) * Len(ErrorBodies)) |->
          Response(Statuses[((i - 1) \div Len(ErrorBodies)) + 1], TRUE,
                   ErrorBodies[((i - 1) % Len(ErrorBodies)) + 1])]
    \o [i \in 1..(Len(Statuses) * Len(InvalidBodies)) |->
          Response(Statuses[((i - 1) \div Len(InvalidBodies)) + 1], TRUE,
                   InvalidBodies[((i - 1) % Len(InvalidBodies)) + 1])]
    \o SelectSeq([i \in 1..Len(Statuses) |->
                    Response(Statuses[i], TRUE, SuccessBody)],
                 LAMBDA b : b.status # 409)

\* CreateGameResponseSchema: the success shape or the error shape
ValidSuccess(body) ==
    /\ body.success.t = "boolean" /\ body.success.v = TRUE
    /\ body.gameId.t = "string"
    /\ body.message.t = "string"

ValidError(body) ==
    /\ body.success.t = "boolean" /\ body.success.v = FALSE
    /\ body.error.t = "string" /\ body.error.v \in BusinessErrors
    /\ body.message.t = "string"

\* A call that threw
Thrown(message) == [threw |-> message]
HasThrown(r) == "threw" \in DOMAIN r

\* The POST itself: throws when fetch rejects, when the status is neither
\* 2xx nor 409 and when the body is not JSON; returns the parsed body
fetchCreateGame(input, b) ==
    IF b.kind \in {"ECONNREFUSED", "ENOTFOUND"} THEN Thrown("fetch failed")
    ELSE IF ~(b.status \in 200..299 \/ b.status = 409) THEN Thrown("HTTP Error")
    ELSE IF ~b.parses THEN Thrown("Unexpected token in JSON")
    ELSE b.body

\* The result a validated body is read as
Outcome(body) ==
    IF ValidSuccess(body)
    THEN [success |-> TRUE, gameId |-> body.gameId.v, message |-> body.message.v]
    ELSE [success |-> FALSE, error |-> body.error.v, message |-> body.message.v]

\* @ValidateResult with a schema that takes any string as error code
ValidateResultAnyCode(r) ==
    IF HasThrown(r) THEN r
    ELSE IF ValidSuccess(r)
            \/ (r.success.t = "boolean" /\ r.error.t = "string"
                  /\ r.message.t = "string")
    THEN Outcome(r)
    ELSE Thrown("Data validation failed for createGame")

\* @ValidateResult(schema): validates what the method returned, throws
\* "Data validation failed for <method>" when it does not fit
ValidateResult(r) ==
    IF HasThrown(r) THEN r
    ELSE IF ValidSuccess(r) \/ ValidError(r) THEN Outcome(r)
    ELSE Thrown("Data validation failed for createGame")

\* The fallback of createGame
GameFallback ==
    [success |-> FALSE, error |-> "GAME_ALREADY_EXISTS",
     message |-> <<"Failed", "to", "reach", "Game", "Service", "-",
                   "fallback", "response">>]

\* @Resilient({timeoutMs, fallback}): the fallback replaces a throw and a
\* call that outlasts the timeout
Resilient(r, b, fallback) ==
    IF b.kind = "timeout" \/ HasThrown(r) THEN fallback ELSE r

\* createGame that hands on any body that parses, whatever the status
createGameAnyStatus(input, b) ==
    IF b.kind = "response" /\ b.parses /\ (ValidSuccess(b.body) \/ ValidError(b.body))
    THEN Outcome(b.body)
    ELSE GameFallback

\* createGame that answers a 409 with the fallback
createGameNo409(input, b) ==
    IF b.kind = "response" /\ b.status = 409 THEN GameFallback
    ELSE Resilient(ValidateResult(fetchCreateGame(input, b)), b, GameFallback)

createGame(input, b) ==
    Resilient(ValidateResult(fetchCreateGame(input, b)), b, GameFallback)

\* createGame answers for a match being finalized: finalizeMatch resumes
\* with its result.  A rejection of the awaited call ends finalizeMatch
\* there.
GameAnswer(matchId, b) ==
    /\ matchmakingInterval
    /\ matchId \in DOMAIN finalizing
    /\ LET result == createGame(createGameInput(matchId, finalizing[matchId]), b)
       IN IF HasThrown(result)
          THEN /\ Commit([Svc EXCEPT !.finalizing = MapDelete(@, matchId)])
               /\ UNCHANGED sent
          ELSE CommitMatch(finalizeMatchResume(Svc, matchId, result, now), matchId)
    /\ UNCHANGED <<now, server, matchmakingInterval, nextMatchId, sock, ticks>>

NextGame ==
    \/ \E s \in Sockets : JoinQueue(s, NoElo)
    \/ \E s \in Sockets, m \in MatchIds : AcceptMatch(s, m, TRUE)
    \/ \E m \in MatchIds : \E i \in 1..Len(Behaviours) :
          GameAnswer(m, Behaviours[i])
    \/ Tick

SpecGame == Init /\ [][NextGame]_vars

(***************************************************************************)
(* The matcher under a fair interval: two users join during the first      *)
(* JoinWindow ticks, may leave, come back or disconnect, and the interval  *)
(* callback keeps running, once per TICK_RATE_MS, for MaxWaitTicks ticks.  *)
(***************************************************************************)
JoinWindow == 2

\* join_queue while the window is open
LiveJoin(s, elo) ==
    /\ ticks < JoinWindow
    /\ JoinQueue(s, elo)

NextLive ==
    \/ \E s \in WaitSockets, elo \in WaitElos : LiveJoin(s, elo)
    \/ \E s \in WaitSockets : LeaveQueue(s)
    \/ \E s \in WaitSockets : Disconnect(s)
    \/ WaitTick

\* The timer of setInterval fires: the callback is run once more.  The step
\* of NextLive that counts a tick is WaitTick, and WaitTick can be taken
\* whenever the timer can fire (LiveTickReady).
IntervalFires ==
    /\ matchmakingInterval
    /\ ticks < MaxWaitTicks
    /\ \A m \in DOMAIN timers : timers[m] > now
    /\ ticks' = ticks + 1

\* setInterval runs its callback again and again: a tick that stays due is
\* taken
SpecLive == Init /\ [][NextLive]_vars /\ WF_ticks(IntervalFires)

(***************************************************************************)
(* The ready check under fair timers: the events of Spec, and a clock that  *)
(* goes on to the next time a setTimeout handle is due.                    *)
(***************************************************************************)
MaxExpireTicks == 1

\* The setInterval callback, as Tick, counted against MaxExpireTicks
ExpireTick ==
    /\ matchmakingInterval
    /\ ticks < MaxExpireTicks
    /\ \A m \in DOMAIN timers : timers[m] > now
    /\ ticks' = ticks + 1
    /\ now' = now + TICK_RATE_MS
    /\ LET st == matchmakingLoop(Svc, nextMatchId, now')
           made == Cardinality(DOMAIN st.pendingMatches)
                     - Cardinality(DOMAIN pendingMatches)
       IN /\ nextMatchId + made - 1 <= MaxMatches
          /\ Commit(st)
          /\ nextMatchId' = nextMatchId + made
          /\ sent' = [m \in MatchIds |->
                        sent[m] \o SelectSeq(ToParticipants(st.emitted),
                                             LAMBDA e : e.payload.matchId = m)]
    /\ UNCHANGED <<server, matchmakingInterval, sock>>

\* Time passes until the next ready-check timeout is due.  Fewer than two
\* players wait, so each interval callback on the way returns at once.
Elapse ==
    /\ matchmakingInterval
    /\ Len(activeQueue) < 2
    /\ DueTimes # {}
    /\ \A m \in DOMAIN timers : timers[m] > now
    /\ now' = NextDue
    /\ UNCHANGED <<server, matchmakingInterval, svcVars, nextMatchId, sock,
                   ticks, sent>>

\* The setTimeout handle of matchId is due and leaves the armed handles: its
\* callback runs (MatchTimeout), unless a reply of a participant clears the
\* handle at that very moment.
TimerFires(matchId) ==
    /\ matchmakingInterval
    /\ matchId \in DOMAIN timers
    /\ now >= timers[matchId]
    /\ timers' = MapDelete(timers, matchId)

NextExpire ==
    \/ \E s \in Sockets : Disconnect(s)
    \/ \E s \in Sockets, elo \in PayloadElos : JoinQueue(s, elo)
    \/ \E s \in Sockets : LeaveQueue(s)
    \/ \E s \in Sockets, m \in MatchIds : AcceptMatch(s, m, TRUE)
    \/ \E s \in Sockets, m \in MatchIds : DeclineMatch(s, m, NoFailure)
    \/ \E m \in MatchIds : \E result \in GameResults(m) : GameReply(m, result)
    \/ \E m \in MatchIds : MatchTimeout(m, NoFailure)
    \/ ExpireTick
    \/ Elapse

\* Time goes on, and a setTimeout handle that is due runs its callback
SpecExpire ==
    /\ Init
    /\ [][NextExpire]_vars
    /\ WF_now(Elapse)
    /\ \A m \in MatchIds : WF_timers(TimerFires(m))

(***************************************************************************)
(* Properties.                                                             *)
(***************************************************************************)
\* The userIds of the participants of the pending matches, with repetition:
\* one entry per participant slot
PendingSlots ==
    {<<m, ref>> : m \in DOMAIN pendingMatches, ref \in {"player1", "player2"}}

SlotUser(slot) == pendingMatches[slot[1]][slot[2]].userId

GameCallsFor(m) == {i \in 1..Len(gameCalls) : gameCalls[i].gameId = m}

SessionCallsFor(m) == {i \in 1..Len(sessionCalls) : sessionCalls[i].id = m}

SentTo(m, socketId, event) ==
    {i \in 1..Len(sent[m]) :
        sent[m][i].to = socketId /\ sent[m][i].event = event}

EventsOf(m, event) == {i \in 1..Len(sent[m]) : sent[m][i].event = event}

\* The sockets of the participants of a match
MatchSockets(match) == {match.player1.socketId, match.player2.socketId}

\* The sockets of the participants of a match whose status is status
SocketsWithStatus(match, status) ==
    {p.socketId : p \in {q \in {match.player1, match.player2} :
                            q.status = status}}

MutuallyAccepted(m) == m \in DOMAIN closed /\ closed[m].how = "accepted"

\* C2: however often the participants repeat their accepts, a match has at
\* most one createGame call and one session-log write, exactly one of each
\* once both have accepted, at most one match_confirmed per participant and
\* exactly one each once it is confirmed; and an accept by a participant
\* whose status is already ACCEPTED leaves every field as it is, calls
\* nothing and emits nothing.
C2_DuplicateAcceptIdempotent ==
    /\ \A m \in MatchIds :
          /\ Cardinality(GameCallsFor(m)) <= 1
          /\ Cardinality(SessionCallsFor(m)) <= 1
          /\ MutuallyAccepted(m) =>
                /\ Cardinality(GameCallsFor(m)) = 1
                /\ Cardinality(SessionCallsFor(m)) = 1
                /\ \A socketId \in MatchSockets(closed[m].match) :
                      Cardinality(SentTo(m, socketId, "match_confirmed"))
                        = IF EventsOf(m, "match_confirmed") = {} THEN 0 ELSE 1
          /\ EventsOf(m, "match_confirmed") # {} => MutuallyAccepted(m)
    /\ \A m \in DOMAIN pendingMatches, s \in Sockets :
          (/\ SocketUser(s) \in Participants(pendingMatches[m])
           /\ s \in SocketsWithStatus(pendingMatches[m], "ACCEPTED"))
          => handleAcceptMatch(Svc, s, m, TRUE) = Svc

\* A match is confirmed to its two participants after one createGame call
\* and one session-log write, both sockets still connected
C2_Witness ==
    \E m \in MatchIds :
        /\ MutuallyAccepted(m)
        /\ Cardinality(EventsOf(m, "match_confirmed")) = 2
        /\ Cardinality(GameCallsFor(m)) = 1
        /\ Cardinality(sessionLog) = 1
        /\ \A s \in MatchSockets(closed[m].match) : sock[s] = "connected"

\* C3: of the accept handlers of the two participants of a pending match,
\* in either order, exactly the one that finds the other participant
\* ACCEPTED and its own status PENDING starts the finalization (removes the
\* match, calls createGame once and suspends); an accept that finds the
\* other participant PENDING, or its own status ACCEPTED, starts none, and
\* neither does an accept for a match already being finalized.
C3_OneAcceptFinalizes ==
    /\ \A m \in DOMAIN pendingMatches, s \in Sockets :
          SocketUser(s) \in Participants(pendingMatches[m]) =>
            LET match == pendingMatches[m]
                st == acceptMatch(Svc, SocketUser(s), m, TRUE)
                own == IF match.player1.userId = SocketUser(s)
                       THEN match.player1 ELSE match.player2
                other == IF match.player1.userId = SocketUser(s)
                         THEN match.player2 ELSE match.player1
            IN IF own.status = "PENDING" /\ other.status = "ACCEPTED"
               THEN /\ m \in DOMAIN st.finalizing
                    /\ m \notin DOMAIN st.pendingMatches
                    /\ Len(st.gameCalls) = Len(gameCalls) + 1
                    /\ st.gameCalls[Len(st.gameCalls)].gameId = m
               ELSE /\ st.finalizing = finalizing
                    /\ st.gameCalls = gameCalls
                    /\ m \in DOMAIN st.pendingMatches
    /\ \A m \in DOMAIN finalizing, s \in Sockets :
          LET st == acceptMatch(Svc, SocketUser(s), m, TRUE)
          IN st.finalizing = finalizing /\ st.gameCalls = gameCalls

\* The second accept has started the finalization of a match, which is
\* suspended on createGame
C3_Witness ==
    \E m \in DOMAIN finalizing :
        /\ MutuallyAccepted(m)
        /\ Cardinality(GameCallsFor(m)) = 1
        /\ sent[m] # <<>>
        /\ EventsOf(m, "match_confirmed") = {}
        /\ EventsOf(m, "match_failed") = {}

\* The answer of the gateway to an event for a match that is not pending
NotFound(s) == Emit(Svc, errorEvent(s, "Match not found or expired"))

\* C4: once both participants of a match have accepted, also while its
\* finalization is suspended on createGame, the match is neither pending
\* nor timed, every accept and every decline for its matchId fails with
\* "Match not found or expired" and changes no field, no penalty and calls
\* nothing, and no match_cancelled is ever emitted for it.
C4_NoCancelAfterMutualAccept ==
    \A m \in MatchIds :
        MutuallyAccepted(m) =>
          /\ m \notin DOMAIN pendingMatches
          /\ m \notin DOMAIN timers
          /\ EventsOf(m, "match_cancelled") = {}
          /\ \A s \in Sockets :
                /\ handleDeclineMatch(Svc, s, m, NoFailure, now) = NotFound(s)
                /\ handleAcceptMatch(Svc, s, m, TRUE) = NotFound(s)

\* A finalization is suspended on createGame while its two participants
\* are connected and able to send a decline
C4_Witness ==
    \E m \in DOMAIN finalizing :
        /\ MutuallyAccepted(m)
        /\ penaltyCalls = <<>>
        /\ \A s \in MatchSockets(finalizing[m]) : sock[s] = "connected"

\* C5: every createGame call is made for a match that left the pending
\* matches with both statuses ACCEPTED, and carries that match's id as
\* gameId and its two userIds; no call is made for a match that is still
\* pending (none, or only one, has accepted) or that ended by a decline
\* or a timeout.
C5_CreateGameOnlyAfterBothAccepted ==
    /\ \A i \in 1..Len(gameCalls) :
          LET m == gameCalls[i].gameId IN
          /\ MutuallyAccepted(m)
          /\ closed[m].match.player1.status = "ACCEPTED"
          /\ closed[m].match.player2.status = "ACCEPTED"
          /\ gameCalls[i] = [gameId |-> m,
                             player1Id |-> closed[m].match.player1.userId,
                             player2Id |-> closed[m].match.player2.userId]
    /\ \A m \in DOMAIN pendingMatches : GameCallsFor(m) = {}
    /\ \A m \in DOMAIN closed :
          closed[m].how \in {"declined", "timeout"} => GameCallsFor(m) = {}

\* createGame was called with the ids of a match whose participants had
\* both accepted, and the Game service has answered with a failure
C5_Witness ==
    \E m \in DOMAIN closed :
        /\ gameCalls = <<[gameId |-> m,
                          player1Id |-> closed[m].match.player1.userId,
                          player2Id |-> closed[m].match.player2.userId]>>
        /\ SocketsWithStatus(closed[m].match, "ACCEPTED")
             = MatchSockets(closed[m].match)
        /\ EventsOf(m, "match_failed") # {}

\* C10: the armed expiration timers are exactly those of the pending
\* matches, one each and due at the match's expiresAt; a match that left
\* the pending matches (mutual accept, decline, timeout) has no timer; and
\* the timer callback run for a matchId that is not pending changes no
\* field, records no penalty and emits nothing.
C10_OneTimerPerPendingMatch ==
    /\ DOMAIN timers = DOMAIN pendingMatches
    /\ \A m \in DOMAIN pendingMatches : timers[m] = pendingMatches[m].expiresAt
    /\ \A m \in DOMAIN closed : m \notin DOMAIN timers
    /\ \A m \in MatchIds \ DOMAIN pendingMatches :
          handleMatchTimeout(Svc, m, NoFailure, now) = Svc

\* The clock is past the expiry of a match that ended by mutual accept:
\* its timer is gone and nobody was penalized
C10_Witness ==
    \E m \in DOMAIN closed :
        /\ closed[m].how = "accepted"
        /\ now >= closed[m].match.expiresAt
        /\ m \notin DOMAIN timers
        /\ penaltyCalls = <<>>

\* The events of a handler run that went to one socket, in order
EventsTo(events, socketId) ==
    SelectSeq(events, LAMBDA e : e.to = socketId /\ e.event # "error")

\* The queue entry of a participant re-queued with priority at time t
PriorityEntry(p, t) ==
    [userId |-> p.userId, socketId |-> p.socketId, elo |-> p.elo,
     joinTime |-> t, rangeFactor |-> 1, priority |-> TRUE]

QueueStatsEvent(size, pending) ==
    [to |-> "broadcast", event |-> "queue_stats",
     stats |-> [size |-> size, pending |-> pending]]

ConfirmedEvent(socketId, gameId, match) ==
    [to |-> socketId, event |-> "match_confirmed",
     payload |-> [gameId |-> gameId, player1Id |-> match.player1.userId,
                  player2Id |-> match.player2.userId]]

FailedEvent(socketId, m, result) ==
    [to |-> socketId, event |-> "match_failed",
     payload |-> [matchId |-> m, reason |-> "game_creation_failed",
                  errorCode |-> result.error, message |-> result.message]]

JoinedEvent(p, t) ==
    [to |-> p.socketId, event |-> "queue_joined",
     payload |-> [userId |-> p.userId, elo |-> p.elo, timestamp |-> t,
                  priority |-> TRUE]]

\* What a failed finalization sends to the two participants, in order
FailureEvents(m, match, result) ==
    <<FailedEvent(match.player1.socketId, m, result),
      FailedEvent(match.player2.socketId, m, result),
      JoinedEvent(match.player1, now), JoinedEvent(match.player2, now)>>

\* addPlayer accepts participant p in the current state: no active penalty,
\* not queued, in no pending match, socket not in the socket index
CanRejoin(p) ==
    /\ \A r \in penalties : r.userId = p.userId => r.expiresAt <= now
    /\ \A i \in 1..Len(activeQueue) : activeQueue[i].userId # p.userId
    /\ \A k \in DOMAIN pendingMatches :
          p.userId \notin {pendingMatches[k].player1.userId,
                           pendingMatches[k].player2.userId}
    /\ p.socketId \notin activeSockets

QueueEntriesOf(q, userId) == {e \in Range(q) : e.userId = userId}

CancelledEvent(socketId, m, reason) ==
    [to |-> socketId, event |-> "match_cancelled",
     payload |-> [reason |-> reason, matchId |-> m]]

PenaltyCall(userId, reason) ==
    [userId |-> userId, durationSeconds |-> 300,
     reason |-> "Matchmaking abuse: " \o reason]

PenaltyCallsOf(calls, userId) ==
    {i \in 1..Len(calls) : calls[i].userId = userId}

\* Participant p is treated as faulty by the cancel of match m that led
\* from the current state to st: one more addPenalty call (300 s, the
\* reason of the cancel), match_cancelled {penalty_applied} and nothing
\* else sent, and afterwards in no index
Penalized(st, m, p, reason) ==
    /\ Cardinality(PenaltyCallsOf(st.penaltyCalls, p.userId))
         = Cardinality(PenaltyCallsOf(penaltyCalls, p.userId)) + 1
    /\ \E i \in (Len(penaltyCalls) + 1)..Len(st.penaltyCalls) :
          st.penaltyCalls[i] = PenaltyCall(p.userId, reason)
    /\ EventsTo(st.emitted, p.socketId)
         = <<CancelledEvent(p.socketId, m, "penalty_applied")>>
    /\ QueueEntriesOf(st.activeQueue, p.userId) = {}
    /\ p.socketId \notin st.activeSockets
    /\ \A k \in DOMAIN st.pendingMatches :
          p.userId \notin {st.pendingMatches[k].player1.userId,
                           st.pendingMatches[k].player2.userId}

\* Participant p is treated as innocent by that cancel: no addPenalty call
\* and no penalty row, back in the queue with priority = true,
\* match_cancelled {opponent_declined} and then queue_joined {priority: true}
Requeued(st, m, p) ==
    /\ PenaltyCallsOf(st.penaltyCalls, p.userId)
         = PenaltyCallsOf(penaltyCalls, p.userId)
    /\ {r \in st.penalties : r.userId = p.userId}
         = {r \in penalties : r.userId = p.userId}
    /\ QueueEntriesOf(st.activeQueue, p.userId) = {PriorityEntry(p, now)}
    /\ p.socketId \in st.activeSockets
    /\ EventsTo(st.emitted, p.socketId)
         = <<CancelledEvent(p.socketId, m, "opponent_declined"),
             JoinedEvent(p, now)>>

\* C8: a decline of pending match m by participant u, whatever the two
\* statuses are, removes m and its timer, calls addPenalty(u, 300,
\* "Matchmaking abuse: declined") once and sends u match_cancelled
\* {penalty_applied} only; the other participant gets no penalty, is back
\* in the queue with priority = true and is sent match_cancelled
\* {opponent_declined} and then queue_joined {priority: true}; createGame
\* is not called and no other pending match is touched.
C8_DeclinePenalizesDecliner ==
    \A m \in DOMAIN pendingMatches, s \in Sockets :
      SocketUser(s) \in Participants(pendingMatches[m]) =>
        LET match == pendingMatches[m]
            st == declineMatch(Svc, SocketUser(s), m, NoFailure, now)
            u == IF match.player1.userId = SocketUser(s)
                 THEN match.player1 ELSE match.player2
            v == IF match.player1.userId = SocketUser(s)
                 THEN match.player2 ELSE match.player1
        IN /\ st.error = ""
           /\ DOMAIN st.pendingMatches = DOMAIN pendingMatches \ {m}
           /\ \A k \in DOMAIN st.pendingMatches :
                 st.pendingMatches[k] = pendingMatches[k]
           /\ DOMAIN st.timers = DOMAIN timers \ {m}
           /\ Len(st.penaltyCalls) = Len(penaltyCalls) + 1
           /\ Penalized(st, m, u, "declined")
           /\ Requeued(st, m, v)
           /\ st.gameCalls = gameCalls
           /\ st.finalizing = finalizing

\* A match ended by the decline of a participant who had accepted before:
\* that participant is banned, the other one waits with priority
C8_Witness ==
    \E m \in DOMAIN closed :
        /\ closed[m].how = "declined"
        /\ \E u, v \in {closed[m].match.player1, closed[m].match.player2} :
              /\ u.status = "ACCEPTED"
              /\ CancelledEvent(u.socketId, m, "penalty_applied") \in Range(sent[m])
              /\ \E r \in penalties : r.userId = u.userId
              /\ PriorityEntry(v, now) \in Range(activeQueue)
              /\ gameCalls = <<>>

\* C9: the timeout of pending match m cancels it with reason "timeout";
\* each participant whose status is PENDING is penalized (300 s,
\* "Matchmaking abuse: timeout"), is sent match_cancelled {penalty_applied}
\* and is in no index afterwards; a participant whose status is ACCEPTED
\* is not penalized and is back in the queue with priority = true.  With no
\* reply at all both are penalized and both are in no index.
C9_TimeoutPenalizesSilent ==
    \A m \in DOMAIN pendingMatches :
        LET match == pendingMatches[m]
            st == handleMatchTimeout(Svc, m, NoFailure, now)
            both == {match.player1, match.player2}
            silent == {p \in both : p.status = "PENDING"}
        IN /\ m \notin DOMAIN st.pendingMatches
           /\ m \notin DOMAIN st.timers
           /\ st.closed[m].how = "timeout"
           /\ Len(st.penaltyCalls) = Len(penaltyCalls) + Cardinality(silent)
           /\ \A p \in silent : Penalized(st, m, p, "timeout")
           /\ \A p \in both \ silent : Requeued(st, m, p)
           /\ st.gameCalls = gameCalls

\* The timer of a match fired at its expiry after one participant had
\* accepted: the silent one is banned and in no index, the other waits
\* with priority
C9_Witness ==
    \E m \in DOMAIN closed :
        /\ closed[m].how = "timeout"
        /\ now >= closed[m].match.expiresAt
        /\ \E p, q \in {closed[m].match.player1, closed[m].match.player2} :
              /\ p.status = "PENDING" /\ q.status = "ACCEPTED"
              /\ \E r \in penalties : r.userId = p.userId
              /\ QueueEntriesOf(activeQueue, p.userId) = {}
              /\ PriorityEntry(q, now) \in Range(activeQueue)

\* The user has a row of the penalties table that expires after t
Banned(userId, t) ==
    \E r \in penalties : r.userId = userId /\ r.expiresAt > t

\* C11: no queued player has an active penalty, and for a user with an
\* active penalty every addPlayer call throws the ban error and leaves the
\* service as it is: the manual join (join_queue answers with the error
\* event only) and the priority re-queue (the caught call changes nothing).
C11_BannedNeverQueued ==
    /\ \A i \in 1..Len(activeQueue) : ~Banned(activeQueue[i].userId, now)
    /\ \A u \in Users : Banned(u, now) =>
          /\ \A s \in AllSockets, priority \in BOOLEAN :
                addPlayer(Svc, u, s, getUserElo(u), priority, now)
                   = [Svc EXCEPT !.error = "You are banned"]
          /\ \A s \in AllSockets :
                /\ SocketUser(s) = u =>
                      handleJoinQueue(Svc, s, NoElo, now)
                         = [Svc EXCEPT !.emitted =
                              <<[to |-> s, event |-> "error",
                                 payload |-> [message |-> "You are banned"]]>>]
                /\ requeue(Svc, [userId |-> u, socketId |-> s,
                                 elo |-> getUserElo(u), status |-> "ACCEPTED"],
                           now) = Svc

\* A user penalized by a decline or a timeout is connected and not queued
\* while the other participant waits again with priority.
C11_Witness ==
    \E u \in Users, i \in 1..Len(activeQueue) :
       /\ Banned(u, now)
       /\ \E k \in 1..Len(penaltyCalls) : penaltyCalls[k].userId = u
       /\ \E s \in Sockets : SocketUser(s) = u /\ sock[s] = "connected"
       /\ activeQueue[i].priority
       /\ activeQueue[i].userId # u

UserQueued(userId) ==
    \E i \in 1..Len(activeQueue) : activeQueue[i].userId = userId

UserPending(userId) ==
    \E m \in DOMAIN pendingMatches :
       userId \in {pendingMatches[m].player1.userId,
                   pendingMatches[m].player2.userId}

\* The error the checks of addPlayer give, in their order
ExpectedJoinError(userId, socketId) ==
    IF Banned(userId, now) THEN "You are banned"
    ELSE IF UserQueued(userId) THEN "User already in queue"
    ELSE IF UserPending(userId) THEN "User already in a pending match"
    ELSE IF socketId \in activeSockets THEN "Socket already active"
    ELSE ""

\* C12: addPlayer, called with any userId, socketId and priority flag,
\* throws the ban error if the user has an active penalty, else the
\* already-queued error if the user is queued or a participant of a
\* pending match, else the socket error if the socketId is an active
\* socket; whenever it throws, the queue, the active sockets, the pending
\* matches and everything else are as before and nothing is emitted
\* (no queue_stats).
C12_AddPlayerErrors ==
    \A u \in Users, s \in AllSockets, priority \in BOOLEAN :
       LET st == addPlayer(Svc, u, s, getUserElo(u), priority, now)
           message == ExpectedJoinError(u, s)
       IN /\ st.error = message
          /\ message # "" => st = [Svc EXCEPT !.error = message]

\* After a decline: the decliner is banned, the other participant is
\* queued again, and the socket of that queued player would be refused to
\* a third user who is neither banned, queued nor in a pending match.
C12_Witness ==
    \E b \in Users, q \in Users, u \in Users :
       /\ Banned(b, now)
       /\ UserQueued(q)
       /\ ~Banned(u, now) /\ ~UserQueued(u) /\ ~UserPending(u)
       /\ \E i \in 1..Len(activeQueue) :
             /\ activeQueue[i].userId = q
             /\ activeQueue[i].socketId \in activeSockets
             /\ SocketUser(activeQueue[i].socketId) # q

\* The positions of queue q that hold user userId, resp. socket socketId
UserSlots(q, userId) == {i \in 1..Len(q) : q[i].userId = userId}
SocketSlots(q, socketId) == {i \in 1..Len(q) : q[i].socketId = socketId}

\* C13: in every reachable state activeSockets is exactly the set of the
\* socketIds of the queued players and no two queued players have the same
\* socketId; and after an addPlayer call that does not throw, the queue
\* holds the player once, with the socketId, elo and priority of the call
\* and rangeFactor 1, the socketId is an active socket and belongs to no
\* other queued player.
C13_IndicesAgree ==
    /\ activeSockets = {activeQueue[i].socketId : i \in 1..Len(activeQueue)}
    /\ \A i, j \in 1..Len(activeQueue) :
          activeQueue[i].socketId = activeQueue[j].socketId => i = j
    /\ \A u \in Users, s \in AllSockets, priority \in BOOLEAN :
          LET st == addPlayer(Svc, u, s, getUserElo(u), priority, now) IN
          st.error = "" =>
             /\ Cardinality(UserSlots(st.activeQueue, u)) = 1
             /\ Cardinality(SocketSlots(st.activeQueue, s)) = 1
             /\ UserSlots(st.activeQueue, u) = SocketSlots(st.activeQueue, s)
             /\ \A i \in UserSlots(st.activeQueue, u) :
                   st.activeQueue[i] =
                      [userId |-> u, socketId |-> s, elo |-> getUserElo(u),
                       joinTime |-> now, rangeFactor |-> 1,
                       priority |-> priority]
             /\ st.activeSockets = activeSockets \cup {s}
             /\ s \notin activeSockets

\* Two players are queued, one of them with a socket that another user
\* connected with, and a further addPlayer call would succeed.
C13_Witness ==
    /\ Len(activeQueue) = 2
    /\ Cardinality(activeSockets) = 2
    /\ SocketUser(activeQueue[1].socketId) # activeQueue[1].userId
    /\ \E u \in Users, s \in AllSockets :
          /\ ~UserQueued(u) /\ s \notin activeSockets
          /\ ~Banned(u, now) /\ ~UserPending(u)

\* Queue q without its i-th player
WithoutSlot(q, i) == SubSeq(q, 1, i - 1) \o SubSeq(q, i + 1, Len(q))

\* C14: removePlayer called with the userId or with the socketId of a queued
\* player removes exactly that player from the queue and that player's
\* socketId from the active sockets, throws nothing and changes nothing
\* else (it broadcasts queue_stats); called again with the same identifier
\* it changes nothing; and called with an identifier that is neither the
\* userId nor the socketId of a queued player it changes nothing, emits
\* nothing and throws nothing.
C14_RemovePlayerIdempotent ==
    /\ \A i \in 1..Len(activeQueue) :
          \A id \in {activeQueue[i].userId, activeQueue[i].socketId} :
             LET st == removePlayer(Svc, id) IN
             /\ st = [Svc EXCEPT
                        !.activeQueue = WithoutSlot(activeQueue, i),
                        !.activeSockets = activeSockets \ {activeQueue[i].socketId},
                        !.emitted =
                           <<[to |-> "broadcast", event |-> "queue_stats",
                              stats |-> [size |-> Len(activeQueue) - 1,
                                         pending |-> Cardinality(DOMAIN pendingMatches)]]>>]
             /\ removePlayer(st, id) = st
    /\ \A id \in Identifiers \cup {"nobody"} :
          (\A i \in 1..Len(activeQueue) :
              id # activeQueue[i].userId /\ id # activeQueue[i].socketId)
          => removePlayer(Svc, id) = Svc

\* Two players are queued, the first with a socket that another user
\* connected with, while a third user and a socket match no queued player.
C14_Witness ==
    /\ Len(activeQueue) = 2
    /\ SocketUser(activeQueue[1].socketId) # activeQueue[1].userId
    /\ \E u \in Users, s \in Sockets : ~UserQueued(u) /\ s \notin activeSockets
    /\ Cardinality(DOMAIN pendingMatches) = 0
    /\ penalties # {}

\* The handler result st leaves the ready checks as they are
SameReadyChecks(st) ==
    /\ st.pendingMatches = pendingMatches
    /\ st.timers = timers
    /\ st.finalizing = finalizing
    /\ st.closed = closed
    /\ st.penalties = penalties
    /\ st.penaltyCalls = penaltyCalls
    /\ st.gameCalls = gameCalls
    /\ st.error = ""

\* C15: removePlayer with any identifier, leave_queue and a disconnect of
\* any socket leave every pending match as it is, with both participants,
\* their statuses and its timer, give no penalty and call no game; and every
\* match that was created is either still pending with its timer armed, or
\* it left by mutual accept (both statuses ACCEPTED), by the decline of a
\* participant or by the timeout (at or after its expiry, some participant
\* still PENDING) and in no other way.
C15_RemoveKeepsPendingMatches ==
    /\ \A id \in Identifiers : SameReadyChecks(removePlayer(Svc, id))
    /\ \A s \in AllSockets :
          /\ SameReadyChecks(handleLeaveQueue(Svc, s, now))
          /\ SameReadyChecks(handleDisconnect(Svc, s))
    /\ \A m \in MatchIds : m < nextMatchId =>
          \/ /\ m \in DOMAIN pendingMatches
             /\ m \notin DOMAIN closed
             /\ m \in DOMAIN timers
             /\ pendingMatches[m].player1.userId # pendingMatches[m].player2.userId
          \/ /\ m \notin DOMAIN pendingMatches
             /\ m \in DOMAIN closed
             /\ LET statuses == {closed[m].match.player1.status,
                                 closed[m].match.player2.status}
                IN \/ closed[m].how = "accepted" /\ statuses = {"ACCEPTED"}
                   \/ /\ closed[m].how = "declined"
                      /\ \E k \in 1..Len(penaltyCalls) :
                            /\ penaltyCalls[k].reason = "Matchmaking abuse: declined"
                            /\ penaltyCalls[k].userId \in
                                  {closed[m].match.player1.userId,
                                   closed[m].match.player2.userId}
                   \/ /\ closed[m].how = "timeout"
                      /\ "PENDING" \in statuses
                      /\ now >= closed[m].match.expiresAt

\* A participant of a pending match has disconnected, and the match is
\* still pending with both participants.
C15_Witness ==
    \E m \in DOMAIN pendingMatches :
       /\ sock[pendingMatches[m].player1.socketId] = "closed"
       /\ pendingMatches[m].player2.status = "ACCEPTED"
       /\ m \in DOMAIN timers

\* addPlayer(u, s), removePlayer(u), addPlayer(u, s) called in a row from
\* the current state by a caller that catches what they throw:
\* <<the error of the first call, the state after removePlayer, the error
\* of the third call, the final state>>
RoundTrip(u, s, priority) ==
    LET st1 == addPlayer(Svc, u, s, getUserElo(u), priority, now)
        st2 == removePlayer([st1 EXCEPT !.error = ""], u)
        st3 == addPlayer(st2, u, s, getUserElo(u), priority, now)
    IN [first |-> st1, removed |-> st2, second |-> st3]

\* C16 as stated: for every user without an active penalty who is in no
\* pending match, and every socket, both addPlayer calls of the round trip
\* succeed.
C16_RoundTripAnyUser ==
    \A u \in Users, s \in AllSockets, priority \in BOOLEAN :
       (~Banned(u, now) /\ ~UserPending(u)) =>
          /\ RoundTrip(u, s, priority).first.error = ""
          /\ RoundTrip(u, s, priority).second.error = ""

\* C16, amended: for every user without an active penalty who is in no
\* pending match and is not queued, and every socketId that is not an
\* active socket, addPlayer, removePlayer, addPlayer with the same socket
\* succeed: neither addPlayer call throws, removePlayer restores the queue
\* and the active sockets of before, and the second addPlayer leaves the
\* user queued once, with that socket, as the first did.
C16_RoundTrip ==
    \A u \in Users, s \in AllSockets, priority \in BOOLEAN :
       (/\ ~Banned(u, now) /\ ~UserPending(u)
        /\ ~UserQueued(u) /\ s \notin activeSockets) =>
          LET r == RoundTrip(u, s, priority) IN
          /\ r.first.error = ""
          /\ r.removed.activeQueue = activeQueue
          /\ r.removed.activeSockets = activeSockets
          /\ r.second.error = ""
          /\ r.second.activeQueue = r.first.activeQueue
          /\ r.second.activeSockets = r.first.activeSockets
          /\ Cardinality(UserSlots(r.second.activeQueue, u)) = 1
          /\ s \in r.second.activeSockets

\* A user who can start the round trip while another player is queued, a
\* third is banned and a match has been made.
C16_Witness ==
    \E u \in Users, s \in AllSockets :
       /\ ~Banned(u, now) /\ ~UserPending(u)
       /\ ~UserQueued(u) /\ s \notin activeSockets
       /\ SocketUser(s) # u
       /\ Len(activeQueue) = 1
       /\ \E b \in Users : Banned(b, now)

\* The matchIds the pending matches had, have or will have, and one that
\* no match ever has
AnyMatchIds == MatchIds \cup {MaxMatches + 1}

\* C17: acceptMatch and declineMatch called by any user with a matchId that
\* is not in pendingMatches (never created, finalized, cancelled or
\* expired) throw 'Match not found or expired', and called with a pending
\* matchId by a user who is neither of its participants throw 'User is not
\* a participant in this match'; in both cases the service is left exactly
\* as it was (statuses, queue, active sockets, timers, penalties, calls)
\* and the gateway answers the socket with the error event only.
C17_UnknownMatchOrStranger ==
    \A u \in Users, m \in AnyMatchIds :
       LET message ==
              IF m \notin DOMAIN pendingMatches
              THEN "Match not found or expired"
              ELSE IF u # pendingMatches[m].player1.userId
                      /\ u # pendingMatches[m].player2.userId
                   THEN "User is not a participant in this match"
                   ELSE ""
       IN message # "" =>
            /\ acceptMatch(Svc, u, m, TRUE) = [Svc EXCEPT !.error = message]
            /\ declineMatch(Svc, u, m, NoFailure, now)
                  = [Svc EXCEPT !.error = message]
            /\ \A s \in AllSockets : SocketUser(s) = u =>
                  LET answer == [Svc EXCEPT !.emitted =
                                   <<[to |-> s, event |-> "error",
                                      payload |-> [message |-> message]]>>]
                  IN /\ handleAcceptMatch(Svc, s, m, TRUE) = answer
                     /\ handleDeclineMatch(Svc, s, m, NoFailure, now) = answer

\* A match is pending with one participant ACCEPTED while a third user is
\* connected, and another matchId has not been created.
C17_Witness ==
    \E m \in DOMAIN pendingMatches, u \in Users :
       /\ u # pendingMatches[m].player1.userId
       /\ u # pendingMatches[m].player2.userId
       /\ \E s \in Sockets : SocketUser(s) = u /\ sock[s] = "connected"
       /\ pendingMatches[m].player1.status = "ACCEPTED"
       /\ UserQueued(u)

\* The queued player with userId
Waiting(userId) == CHOOSE p \in Range(activeQueue) : p.userId = userId

\* The rangeFactor a queued player has once the tick at time t has visited
\* it as the active side
GrownFactor(p, t) ==
    IF t - p.joinTime > EXPANSION_INTERVAL_MS * p.rangeFactor
    THEN p.rangeFactor + EXPANSION_STEP
    ELSE p.rangeFactor

Smaller(a, b) == IF a <= b THEN a ELSE b

\* The matches the tick at time t would add to the pending matches
NewMatches(t) ==
    LET st == matchmakingLoop(Svc, nextMatchId, t)
    IN {st.pendingMatches[m] : m \in DOMAIN st.pendingMatches \ DOMAIN pendingMatches}

\* C18: for every pair the next tick forms, with A = player1 the active and
\* B = player2 the passive side: A comes before B in the sort order of the
\* tick (priority first, then rating ascending), and |eloA - eloB| is at
\* most BASE_TOLERANCE x rangeFactorA x (2 if A has priority, else 1) and at
\* most BASE_TOLERANCE x rangeFactorB, without a bonus for B's priority;
\* rangeFactorA is A's factor after its expansion in this tick, rangeFactorB
\* is B's factor as the tick found it.
C18_PairsWithinTolerance ==
    \A match \in NewMatches(now + TICK_RATE_MS) :
       LET A == Waiting(match.player1.userId)
           B == Waiting(match.player2.userId)
           eloDiff == IF A.elo >= B.elo THEN A.elo - B.elo ELSE B.elo - A.elo
       IN /\ eloDiff <= Smaller(
                BASE_TOLERANCE * GrownFactor(A, now + TICK_RATE_MS)
                   * (IF A.priority THEN 2 ELSE 1),
                BASE_TOLERANCE * B.rangeFactor)
          /\ \/ A.priority /\ ~B.priority
             \/ A.priority = B.priority /\ A.elo <= B.elo

\* Two players whose ratings differ by more than BASE_TOLERANCE have been
\* paired, after their ranges have grown.
C18_Witness ==
    \E m \in DOMAIN pendingMatches :
       /\ pendingMatches[m].player2.elo - pendingMatches[m].player1.elo
             > BASE_TOLERANCE
       /\ now > EXPANSION_INTERVAL_MS

\* Queued players p and n differ by their priority flag only (and by who
\* they are): p has priority, n has not
PriorityTwin(p, n) ==
    /\ p.priority /\ ~n.priority
    /\ p.userId # n.userId
    /\ p.elo = n.elo
    /\ p.joinTime = n.joinTime
    /\ p.rangeFactor = n.rangeFactor

\* The users the tick at time t moves from the queue into a pending match
PairedBy(t) ==
    UNION {{match.player1.userId, match.player2.userId} :
             match \in NewMatches(t)}

\* C19: whenever the queue holds a priority player and a non-priority
\* player with the same rating, the same join time and the same
\* rangeFactor, a tick that moves the non-priority one into a pending
\* match moves the priority one into a pending match too; so the priority
\* player is never paired in a later tick than the other.  The same holds
\* for a whole expansion interval of ticks.
C19_PriorityNotLater ==
    \A i, j \in 1..Len(activeQueue) :
       PriorityTwin(activeQueue[i], activeQueue[j]) =>
          /\ activeQueue[j].userId \in PairedBy(now + TICK_RATE_MS)
                => activeQueue[i].userId \in PairedBy(now + TICK_RATE_MS)
          /\ LET st == RunTicks(Svc, nextMatchId, now, BurstRuns)
             IN (\A k \in 1..Len(st.activeQueue) :
                    st.activeQueue[k].userId # activeQueue[j].userId)
                => (\A k \in 1..Len(st.activeQueue) :
                       st.activeQueue[k].userId # activeQueue[i].userId)

\* The queue holds such a pair, the non-priority player queued first, and
\* a third player with the same rating between them.
C19_Witness ==
    /\ Len(activeQueue) = 3
    /\ PriorityTwin(activeQueue[3], activeQueue[1])
    /\ activeQueue[2].elo = activeQueue[1].elo
    /\ ~activeQueue[2].priority
    /\ now > 0

\* Every player of queue q who is the same queue entry in queue r (same
\* user, same join) has a rangeFactor in r that is not smaller
NotShrunk(q, r) ==
    \A i \in 1..Len(q), j \in 1..Len(r) :
       (q[i].userId = r[j].userId /\ q[i].joinTime = r[j].joinTime)
          => r[j].rangeFactor >= q[i].rangeFactor

\* Every handler, run in the current state, leaves the rangeFactor of the
\* players that stay queued at least as it is
HandlersKeepRange ==
    /\ \A s \in AllSockets :
          /\ NotShrunk(activeQueue, handleJoinQueue(Svc, s, NoElo, now).activeQueue)
          /\ NotShrunk(activeQueue, handleLeaveQueue(Svc, s, now).activeQueue)
          /\ NotShrunk(activeQueue, handleDisconnect(Svc, s).activeQueue)
          /\ \A m \in DOMAIN pendingMatches :
                /\ NotShrunk(activeQueue,
                             handleAcceptMatch(Svc, s, m, TRUE).activeQueue)
                /\ NotShrunk(activeQueue,
                             handleDeclineMatch(Svc, s, m, NoFailure, now).activeQueue)
    /\ \A m \in DOMAIN pendingMatches :
          NotShrunk(activeQueue,
                    handleMatchTimeout(Svc, m, NoFailure, now).activeQueue)

\* C20: every queued player has a rangeFactor of at least 1; no step (a
\* join, a removal, a tick, an expansion interval of ticks) makes the
\* rangeFactor of a player who stays queued smaller; and neither would any
\* gateway handler or timeout callback run in a reachable state.
C20_RangeFactorMonotone ==
    /\ [](\A i \in 1..Len(activeQueue) : activeQueue[i].rangeFactor >= 1)
    /\ []HandlersKeepRange
    /\ [][NotShrunk(activeQueue, activeQueue')]_vars

\* A player whose range has grown is queued next to a player who joined
\* later.
C20_Witness ==
    \E i, j \in 1..Len(activeQueue) :
       /\ activeQueue[i].rangeFactor > 1
       /\ activeQueue[j].joinTime > activeQueue[i].joinTime
       /\ activeQueue[j].rangeFactor = 1

\* Queue entry e was created by the re-queue of participant p of closed
\* match m: p was treated as innocent by the cancel of m (match_cancelled
\* with a reason other than penalty_applied) or m failed at game creation
\* (match_failed), and the service announced the entry with queue_joined
\* {priority: true} at the join time of e
RequeuedFrom(e, m, p) ==
    /\ p.userId = e.userId /\ p.socketId = e.socketId /\ p.elo = e.elo
    /\ \/ /\ closed[m].how \in {"declined", "timeout"}
          /\ \E k \in 1..Len(sent[m]) :
                /\ sent[m][k].to = p.socketId
                /\ sent[m][k].event = "match_cancelled"
                /\ sent[m][k].payload.reason # "penalty_applied"
          /\ \A k \in 1..Len(penaltyCalls) :
                penaltyCalls[k].userId = p.userId =>
                   \E r \in penalties :
                      r.userId = p.userId /\ r.expiresAt <= e.joinTime
       \/ /\ closed[m].how = "accepted"
          /\ \E k \in 1..Len(sent[m]) :
                /\ sent[m][k].to = p.socketId
                /\ sent[m][k].event = "match_failed"
    /\ \E k \in 1..Len(sent[m]) :
          sent[m][k] = [to |-> p.socketId, event |-> "queue_joined",
                        payload |-> [userId |-> p.userId, elo |-> p.elo,
                                     timestamp |-> e.joinTime,
                                     priority |-> TRUE]]

\* C21: every queued player with priority = true was put into the queue
\* by the re-queue of a closed match: as the participant the cancel did not
\* penalize, or as a participant of a match whose game creation failed;
\* and the entry that a join_queue creates has priority = false.
C21_PriorityOnlyByRequeue ==
    /\ \A i \in 1..Len(activeQueue) :
          activeQueue[i].priority =>
             \E m \in DOMAIN closed :
                \E p \in {closed[m].match.player1, closed[m].match.player2} :
                   RequeuedFrom(activeQueue[i], m, p)
    /\ \A s \in AllSockets :
          LET st == handleJoinQueue(Svc, s, NoElo, now) IN
          \A i \in 1..Len(st.activeQueue) :
             st.activeQueue[i].userId = SocketUser(s) /\ ~UserQueued(SocketUser(s))
                => ~st.activeQueue[i].priority

\* After a failed game creation both participants are queued with
\* priority while the third user has joined through join_queue.
C21_Witness ==
    /\ Len(activeQueue) = 3
    /\ \E m \in DOMAIN closed : closed[m].how = "accepted"
    /\ Cardinality({i \in 1..Len(activeQueue) : activeQueue[i].priority}) = 2

\* The scenario: A (1000) and B (1200), no priority, joined at the same
\* time, are the two queued players
Scenario1000And1200 ==
    /\ Len(activeQueue) = 2
    /\ {[userId |-> activeQueue[i].userId, elo |-> activeQueue[i].elo,
         priority |-> activeQueue[i].priority] : i \in 1..2}
         = {[userId |-> "A", elo |-> 1000, priority |-> FALSE],
            [userId |-> "B", elo |-> 1200, priority |-> FALSE]}
    /\ activeQueue[1].joinTime = activeQueue[2].joinTime

\* C22 as stated: the first tick forms no pair, and once the two players
\* have waited for more than EXPANSION_INTERVAL_MS at a tick, that tick has
\* paired them: they are not found queued after it.
C22_PairAfterOneInterval ==
    Scenario1000And1200 =>
       /\ now - activeQueue[1].joinTime <= EXPANSION_INTERVAL_MS
       /\ now = activeQueue[1].joinTime => NewMatches(now + TICK_RATE_MS) = {}

\* C22, amended: with BASE_TOLERANCE = 50, EXPANSION_INTERVAL_MS = 10000,
\* EXPANSION_STEP = 1 and a tick every 1000 ms, the first tick forms no
\* pair; each player's rangeFactor is 1 until the wait exceeds 10 s, 2
\* until it exceeds 20 s, 3 until it exceeds 30 s and 4 from the tick at
\* 31 s; no tick up to and including that one pairs them, and the tick at
\* 32 s, the first that finds 50 x rangeFactor >= 200 on both sides, forms
\* the pair A-B with A as player1.
C22_PairAfterThreeIntervals ==
    Scenario1000And1200 =>
       LET wait == now - activeQueue[1].joinTime
           grown == IF wait > 3 * EXPANSION_INTERVAL_MS THEN 4
                    ELSE IF wait > 2 * EXPANSION_INTERVAL_MS THEN 3
                    ELSE IF wait > EXPANSION_INTERVAL_MS THEN 2
                    ELSE 1
       IN /\ wait <= 3 * EXPANSION_INTERVAL_MS + TICK_RATE_MS
          /\ \A i \in 1..2 : activeQueue[i].rangeFactor = grown
          /\ BASE_TOLERANCE * grown >= 200
                <=> wait = 3 * EXPANSION_INTERVAL_MS + TICK_RATE_MS
          /\ IF wait = 3 * EXPANSION_INTERVAL_MS + TICK_RATE_MS
             THEN \E match \in NewMatches(now + TICK_RATE_MS) :
                     /\ NewMatches(now + TICK_RATE_MS) = {match}
                     /\ match.player1.userId = "A" /\ match.player1.elo = 1000
                     /\ match.player2.userId = "B" /\ match.player2.elo = 1200
             ELSE NewMatches(now + TICK_RATE_MS) = {}

\* A (1000) and B (1200) are in a pending match.
C22_Witness ==
    \E m \in DOMAIN pendingMatches :
       /\ pendingMatches[m].player1.elo = 1000
       /\ pendingMatches[m].player2.elo = 1200
       /\ pendingMatches[m].expiresAt - MATCH_ACCEPT_TIMEOUT_MS
             >= 3 * EXPANSION_INTERVAL_MS + 2 * TICK_RATE_MS

\* The pending matches with a participant whose connection is closed:
\* <<matchId, that participant, the other participant>>
Disconnected ==
    {<<m, pendingMatches[m].player1, pendingMatches[m].player2>> :
        m \in {k \in DOMAIN pendingMatches :
                 sock[pendingMatches[k].player1.socketId] = "closed"}}
    \cup
    {<<m, pendingMatches[m].player2, pendingMatches[m].player1>> :
        m \in {k \in DOMAIN pendingMatches :
                 sock[pendingMatches[k].player2.socketId] = "closed"}}

\* C23 as stated: a disconnect cancels no pending match, and for every
\* pending match with a disconnected participant the match ends in no other
\* way than by its timer (no reply of the other participant ends it), and
\* the timeout cancellation has that participant in its faulty set: one
\* penalty, match_cancelled {penalty_applied}, not re-queued.
C23_DisconnectedAlwaysFaulty ==
    /\ \A s \in AllSockets :
          LET st == handleDisconnect(Svc, s)
          IN st.pendingMatches = pendingMatches /\ st.timers = timers
    /\ \A d \in Disconnected :
          LET m == d[1]
              p == d[2]
              q == d[3]
          IN /\ m \in DOMAIN timers
             /\ p.userId \in {u.userId : u \in {v \in {pendingMatches[m].player1,
                                                        pendingMatches[m].player2} :
                                                  v.status = "PENDING"}}
             /\ Penalized(handleMatchTimeout(Svc, m, NoFailure, now), m, p, "timeout")
             /\ sock[q.socketId] = "connected" =>
                   /\ m \in DOMAIN handleDeclineMatch(Svc, q.socketId, m,
                                                     NoFailure, now).pendingMatches
                   /\ m \in DOMAIN handleAcceptMatch(Svc, q.socketId, m,
                                                    TRUE).pendingMatches

\* C23, amended: a disconnect cancels no pending match and leaves its timer
\* armed.  A participant who disconnects without having accepted cannot
\* reply over that connection, so the match cannot be finalized: an accept
\* of the other participant leaves it pending with its timer, and it ends
\* either by the decline of the other participant, who is then the one
\* penalized while the disconnected participant is re-queued with priority,
\* or by its timer, and then the disconnected participant is in the faulty
\* set: addPenalty(userId, 300, "Matchmaking abuse: timeout"), a penalty row
\* until now + 300 s, match_cancelled {penalty_applied}, in no index.  A
\* participant who had accepted before disconnecting is not in the faulty
\* set of the timeout: that participant is re-queued with priority.
C23_DisconnectedSilentFaulty ==
    /\ \A s \in AllSockets :
          LET st == handleDisconnect(Svc, s)
          IN st.pendingMatches = pendingMatches /\ st.timers = timers
    /\ \A d \in Disconnected :
          LET m == d[1]
              p == d[2]
              q == d[3]
              timedOut == handleMatchTimeout(Svc, m, NoFailure, now)
          IN /\ m \in DOMAIN timers
             /\ timedOut.closed[m].how = "timeout"
             /\ p.status = "PENDING" =>
                   /\ Penalized(timedOut, m, p, "timeout")
                   /\ [userId |-> p.userId,
                       reason |-> "Matchmaking abuse: timeout",
                       expiresAt |-> now + PENALTY_DURATION_SECONDS * 1000]
                         \in timedOut.penalties
                   /\ sock[q.socketId] = "connected" =>
                        LET accepted == handleAcceptMatch(Svc, q.socketId, m, TRUE)
                            declined == handleDeclineMatch(Svc, q.socketId, m,
                                                           NoFailure, now)
                        IN /\ m \in DOMAIN accepted.pendingMatches
                           /\ m \in DOMAIN accepted.timers
                           /\ accepted.gameCalls = gameCalls
                           /\ declined.closed[m].how = "declined"
                           /\ Penalized(declined, m, q, "declined")
                           /\ Requeued(declined, m, p)
             /\ p.status = "ACCEPTED" => Requeued(timedOut, m, p)

\* A participant disconnected without replying, the other accepted, and
\* the timer of the match fired at its expiry: the disconnected one is
\* banned and in no index
C23_Witness ==
    \E m \in DOMAIN closed :
        /\ closed[m].how = "timeout"
        /\ now = closed[m].match.expiresAt
        /\ \E p, q \in {closed[m].match.player1, closed[m].match.player2} :
              /\ p.status = "PENDING" /\ q.status = "ACCEPTED"
              /\ sock[p.socketId] = "closed" /\ sock[q.socketId] = "connected"
              /\ \E r \in penalties :
                    r.userId = p.userId /\ r.reason = "Matchmaking abuse: timeout"
              /\ QueueEntriesOf(activeQueue, p.userId) = {}
              /\ sent[m][Len(sent[m])].event = "queue_joined"

\* C24: after every run of the interval callback, also one in which
\* handleMatchFound throws, the periodic loop is still live: the exception
\* was caught inside the callback and the next tick can run.
C24_TickLoopSurvives == matchmakingInterval

\* The cancels that can end pending match m now: <<the outcome when the
\* penalty store throws for the users in penFail, the faulty set, the
\* reason>>, for a decline of either participant and for the timeout
CancelsOf(m, penFail) ==
    {<<handleDeclineMatch(Svc, p.socketId, m, penFail, now), {p.userId},
       "declined">> :
        p \in {pendingMatches[m].player1, pendingMatches[m].player2}}
    \cup
    {<<handleMatchTimeout(Svc, m, penFail, now),
       {p.userId : p \in {q \in {pendingMatches[m].player1,
                                 pendingMatches[m].player2} :
                            q.status = "PENDING"}},
       "timeout">>}

\* C25: when addPenalty throws for some faulty participants of a cancel
\* (decline or timeout), the cancel runs to its end without an error: the
\* pending match and its timer are removed; addPenalty was called once for
\* every faulty participant, and only those for whom it threw have no new
\* penalty row; every faulty participant, also one whose penalty failed,
\* gets match_cancelled {penalty_applied} and is in no index; every other
\* participant is re-queued with priority and gets match_cancelled
\* {opponent_declined} and queue_joined {priority: true}; queue_stats is
\* broadcast last.
C25_PenaltyFailureDoesNotAbortCancel ==
    \A m \in DOMAIN pendingMatches :
      \A penFail \in PenaltyFailures :
        \A c \in CancelsOf(m, penFail) :
          LET st == c[1]
              faulty == c[2]
              reason == c[3]
              both == {pendingMatches[m].player1, pendingMatches[m].player2}
          IN /\ st.error = ""
             /\ \A e \in Range(st.emitted) : e.event # "error"
             /\ m \notin DOMAIN st.pendingMatches
             /\ m \notin DOMAIN st.timers
             /\ st.closed[m].how = reason
             /\ Len(st.penaltyCalls) = Len(penaltyCalls) + Cardinality(faulty)
             /\ \A p \in both :
                   IF p.userId \in faulty
                   THEN /\ Penalized(st, m, p, reason)
                        /\ {r \in st.penalties : r.userId = p.userId}
                             = {r \in penalties : r.userId = p.userId}
                               \cup (IF p.userId \in penFail THEN {}
                                     ELSE {[userId |-> p.userId,
                                            reason |-> "Matchmaking abuse: "
                                                         \o reason,
                                            expiresAt |-> now + 300 * 1000]})
                   ELSE Requeued(st, m, p)
             /\ st.emitted[Len(st.emitted)]
                  = QueueStatsEvent(Len(st.activeQueue),
                                    Cardinality(DOMAIN st.pendingMatches))

\* A participant declined while the penalty store was failing: the match
\* is cancelled, the call is recorded but no penalty row exists, the
\* decliner was told penalty_applied and the other participant waits with
\* priority
C25_Witness ==
    \E m \in DOMAIN closed :
        /\ closed[m].how = "declined"
        /\ \E p, q \in {closed[m].match.player1, closed[m].match.player2} :
              /\ p # q
              /\ \E k \in 1..Len(penaltyCalls) :
                    penaltyCalls[k] = PenaltyCall(p.userId, "declined")
              /\ \A r \in penalties : r.userId # p.userId
              /\ CancelledEvent(p.socketId, m, "penalty_applied") \in Range(sent[m])
              /\ CancelledEvent(q.socketId, m, "opponent_declined") \in Range(sent[m])
              /\ PriorityEntry(q, now) \in Range(activeQueue)

\* The matches whose session log write was attempted and left no row
LogFailed ==
    {m \in MatchIds :
        /\ \E k \in 1..Len(sessionCalls) : sessionCalls[k].id = m
        /\ \A row \in sessionLog : row.id # m}

\* C26: when createSessionLog throws in the finalizeMatch that the second
\* accept starts, the accept raises no error and sends no error event, the
\* match and its timer are removed, createGame is called once with
\* {gameId: matchId, player1Id, player2Id} and finalizeMatch waits for its
\* answer, exactly as when the write succeeds, only the row is missing; a
\* match whose log write failed has exactly one createGame call, and when
\* the answer arrives both participants receive match_confirmed with the
\* gameId of the answer if it is a success, match_failed with its error
\* code and message otherwise.
C26_SessionLogFailureSwallowed ==
    /\ \A m \in DOMAIN pendingMatches :
         \A p \in {pendingMatches[m].player1, pendingMatches[m].player2} :
           LET failed == handleAcceptMatch(Svc, p.socketId, m, FALSE)
               logged == handleAcceptMatch(Svc, p.socketId, m, TRUE)
               input == [gameId |-> m,
                         player1Id |-> pendingMatches[m].player1.userId,
                         player2Id |-> pendingMatches[m].player2.userId]
           IN /\ failed.error = ""
              /\ \A e \in Range(failed.emitted) : e.event # "error"
              /\ [failed EXCEPT !.sessionLog = logged.sessionLog] = logged
              /\ Len(failed.sessionCalls) > Len(sessionCalls) =>
                    /\ failed.sessionLog = sessionLog
                    /\ logged.sessionLog # sessionLog
                    /\ m \notin DOMAIN failed.pendingMatches
                    /\ m \notin DOMAIN failed.timers
                    /\ failed.gameCalls = Append(gameCalls, input)
                    /\ m \in DOMAIN failed.finalizing
    /\ \A m \in LogFailed :
          /\ Cardinality({k \in 1..Len(gameCalls) : gameCalls[k].gameId = m}) = 1
          /\ m \in DOMAIN finalizing =>
               \A result \in GameResults(m) :
                 LET st == finalizeMatchResume(Svc, m, result, now)
                     match == finalizing[m]
                     events == SelectSeq(st.emitted,
                                  LAMBDA e : e.event \in {"match_confirmed",
                                                          "match_failed"})
                 IN /\ st.error = ""
                    /\ st.gameCalls = gameCalls
                    /\ events =
                         IF result.success
                         THEN <<ConfirmedEvent(match.player1.socketId,
                                               result.gameId, match),
                                ConfirmedEvent(match.player2.socketId,
                                               result.gameId, match)>>
                         ELSE <<FailedEvent(match.player1.socketId, m, result),
                                FailedEvent(match.player2.socketId, m, result)>>

\* The session log write of a match failed, createGame was called once and
\* answered with a success: both participants have their match_confirmed
C26_Witness ==
    \E m \in LogFailed :
        /\ m \in DOMAIN closed /\ closed[m].how = "accepted"
        /\ m \notin DOMAIN finalizing
        /\ Cardinality({k \in 1..Len(gameCalls) : gameCalls[k].gameId = m}) = 1
        /\ \A s \in MatchSockets(closed[m].match) :
              ConfirmedEvent(s, OtherGameId, closed[m].match) \in Range(sent[m])

\* The calls of createGame that can be answered now: <<matchId, the
\* behaviour of fetch, the result of createGame>>
GameCalls ==
    {<<m, i, createGame([gameId |-> m,
                         player1Id |-> finalizing[m].player1.userId,
                         player2Id |-> finalizing[m].player2.userId],
                        Behaviours[i])>> :
        m \in DOMAIN finalizing, i \in 1..Len(Behaviours)}

\* The result is the synthesized one: error GAME_ALREADY_EXISTS and the
\* word "fallback" in the message
IsFallback(r) ==
    /\ DOMAIN r = {"success", "error", "message"}
    /\ r.success = FALSE
    /\ r.error = "GAME_ALREADY_EXISTS"
    /\ \E k \in 1..Len(r.message) : r.message[k] = "fallback"

\* The body of a response is JSON of one of the two shapes of the schema
WellFormed(b) ==
    /\ b.parses
    /\ \/ /\ b.body.success.t = "boolean" /\ b.body.success.v = TRUE
          /\ b.body.gameId.t = "string" /\ b.body.message.t = "string"
       \/ /\ b.body.success.t = "boolean" /\ b.body.success.v = FALSE
          /\ b.body.error.t = "string"
          /\ b.body.error.v \in {"GAME_ALREADY_EXISTS", "PLAYER_ALREADY_IN_GAME",
                                 "INVALID_PLAYERS"}
          /\ b.body.message.t = "string"

\* C27: whatever fetch does, createGame does not throw and returns one of
\* the two typed outcomes, {success: true, gameId, message} or {success:
\* false, error in the three codes, message}; when the connection is
\* refused, the name does not resolve, the answer comes after the timeout,
\* the body is not JSON or does not fit the schema, the outcome is
\* {success: false, error: "GAME_ALREADY_EXISTS"} with "fallback" in its
\* message, and finalizeMatch reports it to both participants as
\* match_failed.
C27_CreateGameNeverThrows ==
    \A c \in GameCalls :
      LET m == c[1]
          b == Behaviours[c[2]]
          r == c[3]
      IN /\ "threw" \notin DOMAIN r
         /\ \/ DOMAIN r = {"success", "gameId", "message"} /\ r.success = TRUE
            \/ /\ DOMAIN r = {"success", "error", "message"}
               /\ r.success = FALSE
               /\ r.error \in {"GAME_ALREADY_EXISTS", "PLAYER_ALREADY_IN_GAME",
                               "INVALID_PLAYERS"}
         /\ (b.kind \in {"ECONNREFUSED", "ENOTFOUND", "timeout"} \/ ~WellFormed(b)) =>
               /\ IsFallback(r)
               /\ LET st == finalizeMatchResume(Svc, m, r, now)
                  IN /\ st.error = ""
                     /\ \A s \in MatchSockets(finalizing[m]) :
                           [to |-> s, event |-> "match_failed",
                            payload |-> [matchId |-> m,
                                         reason |-> "game_creation_failed",
                                         errorCode |-> "GAME_ALREADY_EXISTS",
                                         message |-> r.message]]
                             \in Range(st.emitted)

\* Both participants of a match were told match_failed with the fallback
\* outcome and wait again, with priority
C27_Witness ==
    \E m \in DOMAIN closed :
        /\ closed[m].how = "accepted"
        /\ m \notin DOMAIN finalizing
        /\ \A s \in MatchSockets(closed[m].match) :
              \E k \in 1..Len(sent[m]) :
                 /\ sent[m][k].to = s
                 /\ sent[m][k].event = "match_failed"
                 /\ sent[m][k].payload.errorCode = "GAME_ALREADY_EXISTS"
                 /\ \E w \in 1..Len(sent[m][k].payload.message) :
                       sent[m][k].payload.message[w] = "fallback"
        /\ Len(activeQueue) >= 2

\* The content of a well-formed body, as createGame returns it
PassedThrough(b) ==
    IF b.body.success.v
    THEN [success |-> TRUE, gameId |-> b.body.gameId.v,
          message |-> b.body.message.v]
    ELSE [success |-> FALSE, error |-> b.body.error.v,
          message |-> b.body.message.v]

\* C28 as stated: a response is passed through only when its status is 2xx
\* and its body is well-formed; every response with another status gives
\* the fallback result.
C28_PassThroughOnly2xx ==
    \A c \in GameCalls :
      LET b == Behaviours[c[2]]
          r == c[3]
      IN b.kind = "response" =>
            IF b.status \in 200..299 /\ WellFormed(b)
            THEN r = PassedThrough(b)
            ELSE IsFallback(r)

\* C28, amended: a response is passed through, as the content of its body,
\* exactly when its status is 2xx and its body is well-formed, or its
\* status is 409 and its body is a well-formed business error; every
\* response with a status other than 2xx and 409 gives the fallback result,
\* whatever its body, and so does every response whose body is not JSON or
\* does not fit the schema; a response that is passed through never has
\* the word "fallback" in its message.
C28_PassThrough2xxOr409 ==
    \A c \in GameCalls :
      LET b == Behaviours[c[2]]
          r == c[3]
      IN b.kind = "response" =>
            /\ IF \/ b.status \in 200..299 /\ WellFormed(b)
                  \/ b.status = 409 /\ WellFormed(b) /\ ~b.body.success.v
               THEN /\ r = PassedThrough(b)
                    /\ \A k \in 1..Len(r.message) : r.message[k] # "fallback"
               ELSE IsFallback(r)
            /\ b.status \notin (200..299) \cup {409} => IsFallback(r)

\* The Game service answered 2xx with a success body: both participants
\* have match_confirmed with the gameId of that body
C28_Witness ==
    \E m \in DOMAIN closed :
        /\ closed[m].how = "accepted"
        /\ m \notin DOMAIN finalizing
        /\ \A s \in MatchSockets(closed[m].match) :
              [to |-> s, event |-> "match_confirmed",
               payload |-> [gameId |-> SuccessBody.gameId.v,
                            player1Id |-> closed[m].match.player1.userId,
                            player2Id |-> closed[m].match.player2.userId]]
                \in Range(sent[m])

\* C29: when the Game service answers 409 with {success: false, error,
\* message} and error is GAME_ALREADY_EXISTS, PLAYER_ALREADY_IN_GAME or
\* INVALID_PLAYERS, createGame returns {success: false, that error, that
\* message}: not the fallback result, also when the error is
\* GAME_ALREADY_EXISTS, and finalizeMatch reports that error and message to
\* both participants as match_failed.
C29_BusinessErrorUnchanged ==
    \A m \in DOMAIN finalizing :
      \A code \in {"GAME_ALREADY_EXISTS", "PLAYER_ALREADY_IN_GAME", "INVALID_PLAYERS"} :
        LET message == <<"Rejected", "by", "the", "Game", "service">>
            body == [success |-> [t |-> "boolean", v |-> FALSE],
                     gameId |-> [t |-> "undefined"],
                     error |-> [t |-> "string", v |-> code],
                     message |-> [t |-> "string", v |-> message]]
            r == createGame([gameId |-> m,
                             player1Id |-> finalizing[m].player1.userId,
                             player2Id |-> finalizing[m].player2.userId],
                            [kind |-> "response", status |-> 409,
                             parses |-> TRUE, body |-> body])
            st == finalizeMatchResume(Svc, m, r, now)
        IN /\ r = [success |-> FALSE, error |-> code, message |-> message]
           /\ r # GameFallback
           /\ \A s \in MatchSockets(finalizing[m]) :
                 [to |-> s, event |-> "match_failed",
                  payload |-> [matchId |-> m, reason |-> "game_creation_failed",
                               errorCode |-> code, message |-> message]]
                   \in Range(st.emitted)

\* The Game service answered 409 PLAYER_ALREADY_IN_GAME: both participants
\* were told match_failed with that code and the message of the body
C29_Witness ==
    \E m \in DOMAIN closed :
        /\ closed[m].how = "accepted"
        /\ m \notin DOMAIN finalizing
        /\ \A s \in MatchSockets(closed[m].match) :
              [to |-> s, event |-> "match_failed",
               payload |-> [matchId |-> m, reason |-> "game_creation_failed",
                            errorCode |-> "PLAYER_ALREADY_IN_GAME",
                            message |-> <<"Rejected", "by", "the", "Game",
                                          "service">>]]
                \in Range(sent[m])

ScannedBefore(i, j) ==
    LET a == activeQueue[i]
        b == activeQueue[j]
    IN \/ a.priority /\ ~b.priority
       \/ a.priority = b.priority /\ a.elo < b.elo
       \/ a.priority = b.priority /\ a.elo = b.elo /\ i < j

\* The tolerance condition of the tick at time t with entry i as the active
\* and entry j as the passive side
WithinTolerance(i, j, t) ==
    LET a == activeQueue[i]
        b == activeQueue[j]
        eloDiff == IF a.elo >= b.elo THEN a.elo - b.elo ELSE b.elo - a.elo
        grown == IF t - a.joinTime > EXPANSION_INTERVAL_MS * a.rangeFactor
                 THEN a.rangeFactor + EXPANSION_STEP ELSE a.rangeFactor
    IN /\ eloDiff <= BASE_TOLERANCE * grown * (IF a.priority THEN 2 ELSE 1)
       /\ eloDiff <= BASE_TOLERANCE * b.rangeFactor

\* The pairs <<i, j>> of queue positions the tick at time t forms: entry i
\* is player1 and entry j is player2 of a new pending match
TickPairs(t) ==
    {<<i, j>> \in (1..Len(activeQueue)) \X (1..Len(activeQueue)) :
        \E match \in NewMatches(t) :
           /\ match.player1.userId = activeQueue[i].userId
           /\ match.player2.userId = activeQueue[j].userId}

\* The positions paired by the tick before it scans entry i
PairedBefore(i, t) ==
    UNION {{p[1], p[2]} : p \in {q \in TickPairs(t) : ScannedBefore(q[1], i)}}

\* C31: the pairs of one tick are those of the reference procedure on the
\* queue as the tick finds it.  Every pair has its active side scanned
\* before its passive side, both unpaired when the active side is scanned,
\* within tolerance, and every entry scanned between them is already paired
\* or out of tolerance (the first fitting entry is taken, and the scan for
\* A stops); an entry left unpaired has no later unpaired entry within its
\* tolerance; no entry is in two pairs; every new match is a pair of queue
\* entries; the paired entries leave the queue and the active sockets, the
\* others stay in their order; with fewer than two entries nothing happens.
C31_TickPairsAsReference ==
    LET t == now + TICK_RATE_MS
        st == matchmakingLoop(Svc, nextMatchId, t)
        all == 1..Len(activeQueue)
        paired == UNION {{p[1], p[2]} : p \in TickPairs(t)}
    IN /\ Cardinality(TickPairs(t)) = Cardinality(NewMatches(t))
       /\ \A p \in TickPairs(t) :
             /\ ScannedBefore(p[1], p[2])
             /\ WithinTolerance(p[1], p[2], t)
             /\ {p[1], p[2]} \cap PairedBefore(p[1], t) = {}
             /\ \A k \in all :
                   ScannedBefore(p[1], k) /\ ScannedBefore(k, p[2]) =>
                      k \in PairedBefore(p[1], t) \/ ~WithinTolerance(p[1], k, t)
       /\ \A p, q \in TickPairs(t) : {p[1], p[2]} \cap {q[1], q[2]} # {} => p = q
       /\ \A i \in all \ paired :
             \A k \in all :
                ScannedBefore(i, k) =>
                   k \in PairedBefore(i, t) \/ ~WithinTolerance(i, k, t)
       /\ [k \in 1..Len(st.activeQueue) |-> st.activeQueue[k].userId]
            = [k \in 1..Len(SelectSeq(activeQueue,
                     LAMBDA e : \E i \in all \ paired : activeQueue[i] = e)) |->
                 SelectSeq(activeQueue,
                     LAMBDA e : \E i \in all \ paired : activeQueue[i] = e)[k].userId]
       /\ st.activeSockets
            = activeSockets \ {activeQueue[i].socketId : i \in paired}
       /\ Len(activeQueue) < 2 => TickPairs(t) = {} /\ st.activeQueue = activeQueue

\* A tick paired two players with the same rating and left a third one,
\* rated lower and queued before that tick, in the queue
C31_Witness ==
    \E m \in DOMAIN pendingMatches :
       \E i \in 1..Len(activeQueue) :
          /\ pendingMatches[m].player1.elo = pendingMatches[m].player2.elo
          /\ activeQueue[i].elo < pendingMatches[m].player2.elo
          /\ ~activeQueue[i].priority
          /\ activeQueue[i].joinTime
               < pendingMatches[m].expiresAt - MATCH_ACCEPT_TIMEOUT_MS

\* C32: the tick at time t leaves in the queue exactly the players it
\* visited as the active side without pairing them, and for each of them
\* rangeFactor is one EXPANSION_STEP higher than before if t - joinTime >
\* EXPANSION_INTERVAL_MS x rangeFactor (the factor before the tick) and the
\* same otherwise, all other fields unchanged; so no rangeFactor grows by
\* more than one step in a tick, however long the player has waited; and a
\* tick that finds fewer than two players changes nothing, also for a
\* player who has waited longer than the interval.
C32_ExpansionOneStepPerTick ==
    LET t == now + TICK_RATE_MS
        st == matchmakingLoop(Svc, nextMatchId, t)
    IN /\ \A k \in 1..Len(st.activeQueue) :
             \E i \in 1..Len(activeQueue) :
                LET before == activeQueue[i]
                    after == st.activeQueue[k]
                    due == t - before.joinTime
                             > EXPANSION_INTERVAL_MS * before.rangeFactor
                IN /\ after.userId = before.userId
                   /\ after = [before EXCEPT !.rangeFactor = after.rangeFactor]
                   /\ after.rangeFactor - before.rangeFactor
                        = IF due /\ Len(activeQueue) >= 2 THEN EXPANSION_STEP ELSE 0
       /\ Len(activeQueue) < 2 => st.activeQueue = activeQueue

\* A player waited alone for more than two intervals, then a second player
\* joined, too far away to be paired: the one tick since then has raised
\* the first player's rangeFactor by one step only and left the second's
C32_Witness ==
    /\ Len(activeQueue) = 2
    /\ activeQueue[1].rangeFactor = 1 + EXPANSION_STEP
    /\ now - activeQueue[1].joinTime > 2 * EXPANSION_INTERVAL_MS
    /\ activeQueue[2].rangeFactor = 1
    /\ activeQueue[2].joinTime = now - TICK_RATE_MS

\* Under SpecLive the tick that is due never lacks a match identifier, so
\* the fairness of the timer is the fairness of WaitTick.
LiveTickReady ==
    LET st == matchmakingLoop(Svc, nextMatchId, now + TICK_RATE_MS)
    IN nextMatchId + Cardinality(DOMAIN st.pendingMatches)
          - Cardinality(DOMAIN pendingMatches) - 1 <= MaxMatches

\* userId and other are the two participants of a pending match
PendingTogether(userId, other) ==
    \E m \in DOMAIN pendingMatches :
       {pendingMatches[m].player1.userId, pendingMatches[m].player2.userId}
          = {userId, other}

\* userId has left the queue by leave_queue or by a disconnect
GoneFromQueue(userId) == ~UserQueued(userId) /\ ~UserPending(userId)

\* C33: under a fair interval callback, two players who are queued
\* together and neither leaves nor disconnects are eventually the two
\* participants of a pending match, whatever ratings they joined with
\* (here up to 200 apart, four times BASE_TOLERANCE).
C33_StayingPlayersArePaired ==
    \A userId \in Users : \A other \in Users \ {userId} :
       (UserQueued(userId) /\ UserQueued(other))
          ~> \/ PendingTogether(userId, other)
             \/ GoneFromQueue(userId)
             \/ GoneFromQueue(other)

\* Two players whose ratings are 200 apart are in a pending match; one of
\* them joined after the first tick.
C33_Witness ==
    \E m \in DOMAIN pendingMatches :
       /\ Abs(pendingMatches[m].player1.elo - pendingMatches[m].player2.elo)
             = 4 * BASE_TOLERANCE
       /\ pendingMatches[m].expiresAt - MATCH_ACCEPT_TIMEOUT_MS
             > 3 * EXPANSION_INTERVAL_MS + 2 * TICK_RATE_MS

\* The ways a pending match ends, as cancelMatch and finalizeMatch record
\* them
Endings == {"accepted", "declined", "timeout"}

\* C34: a pending match is never found pending after its expiration time,
\* and under fair timers every pending match eventually leaves
\* pendingMatches, ended by the accept of both participants, by a decline
\* or by its timer.
C34_PendingMatchEnds ==
    /\ [](\A m \in DOMAIN pendingMatches : now <= pendingMatches[m].expiresAt)
    /\ \A m \in MatchIds :
          (m \in DOMAIN pendingMatches)
             ~> /\ m \notin DOMAIN pendingMatches
                /\ m \in DOMAIN closed
                /\ closed[m].how \in Endings

\* A match whose only reply was an accept has been ended by its timer, at
\* its expiration time.
C34_Witness ==
    \E m \in DOMAIN closed :
       /\ closed[m].how = "timeout"
       /\ "ACCEPTED" \in {closed[m].match.player1.status,
                          closed[m].match.player2.status}
       /\ now = closed[m].match.expiresAt
       /\ m \notin DOMAIN pendingMatches

\* The terminal events the participants of match m have been sent
Outcomes(m) ==
    {sent[m][i].event : i \in 1..Len(sent[m])}
       \cap {"match_confirmed", "match_failed", "match_cancelled"}

\* Match m ended cancelled with userId among its participants
CancelledWith(m, userId) ==
    /\ m \in DOMAIN closed
    /\ closed[m].how \in {"declined", "timeout"}
    /\ userId \in {closed[m].match.player1.userId,
                   closed[m].match.player2.userId}
    /\ Outcomes(m) = {"match_cancelled"}

\* C35: a match has at most one terminal outcome among match_confirmed,
\* match_failed and match_cancelled, whatever the order of accepts,
\* declines, timer and createGame answers; and every addPenalty call and
\* every penalty row is for a participant of a match that ended cancelled.
C35_OneTerminalOutcome ==
    /\ \A m \in MatchIds : Cardinality(Outcomes(m)) <= 1
    /\ \A m \in DOMAIN pendingMatches \cup DOMAIN finalizing : Outcomes(m) = {}
    /\ \A i \in 1..Len(penaltyCalls) :
          \E m \in MatchIds : CancelledWith(m, penaltyCalls[i].userId)
    /\ \A r \in penalties : \E m \in MatchIds : CancelledWith(m, r.userId)

\* A match both participants accepted has failed at createGame, after its
\* expiration time, and nobody has a penalty.
C35_Witness ==
    \E m \in DOMAIN closed :
       /\ closed[m].how = "accepted"
       /\ Outcomes(m) = {"match_failed"}
       /\ now >= closed[m].match.expiresAt
       /\ penalties = {}

\* Every queue_joined {priority: true} among events is addressed to the
\* socket of a player who waits in queue q for that user with priority
TruthfulJoins(events, q) ==
    \A i \in 1..Len(events) :
       (events[i].event = "queue_joined" /\ events[i].payload.priority)
          => \E e \in QueueEntriesOf(q, events[i].payload.userId) :
                e.priority /\ e.socketId = events[i].to

\* C36: whenever a cancel (decline or timeout) or a failed game creation
\* emits queue_joined {priority: true} to a participant, that user is then
\* in the queue with priority = true and with the socket the event went to,
\* also when the user sent join_queue again while finalizeMatch was
\* suspended on createGame.
C36_QueueJoinedMeansQueued ==
    /\ \A m \in DOMAIN finalizing :
         \A result \in {r \in GameResults(m) : ~r.success} :
            LET st == finalizeMatchResume(Svc, m, result, now)
            IN TruthfulJoins(st.emitted, st.activeQueue)
    /\ \A m \in DOMAIN pendingMatches :
         \A cancel \in CancelsOf(m, NoFailure) :
            TruthfulJoins(cancel[1].emitted, cancel[1].activeQueue)

\* C37: once a socket has disconnected, no queued player carries its
\* socketId, in any later state; the re-queue of a cancel or of a failed
\* game creation included.
C37_NoQueuedPlayerOnClosedSocket ==
    \A i \in 1..Len(activeQueue) : sock[activeQueue[i].socketId] # "closed"

\* C38: a disconnect or a leave_queue on socket s2 leaves in the queue every
\* player who was queued through another socket s1, also when s2 is
\* authenticated as the same user.
C38_OtherSocketKeepsPlayer ==
    \A i \in 1..Len(activeQueue) :
       \A s2 \in {s \in AllSockets : sock[s] = "connected"}
                   \ {activeQueue[i].socketId} :
          /\ activeQueue[i] \in Range(handleDisconnect(Svc, s2).activeQueue)
          /\ activeQueue[i] \in Range(handleLeaveQueue(Svc, s2, now).activeQueue)

\* The pairing condition for a rating difference, the active side's
\* rangeFactor and priority, and the passive side's rangeFactor
Fits(eloDiff, fa, priority, fb) ==
    /\ eloDiff <= BASE_TOLERANCE * fa * (IF priority THEN 2 ELSE 1)
    /\ eloDiff <= BASE_TOLERANCE * fb

\* C39 as stated: no two players a tick leaves in the queue satisfy the
\* pairing condition with the rangeFactors they have after that tick, the
\* one scanned first taken as the active side.
C39_NoPairLeftBehind ==
    LET t == now + TICK_RATE_MS
        st == matchmakingLoop(Svc, nextMatchId, t)
    IN \A i, j \in 1..Len(activeQueue) : \A a, b \in Range(st.activeQueue) :
          (/\ ScannedBefore(i, j)
           /\ a.userId = activeQueue[i].userId
           /\ b.userId = activeQueue[j].userId)
             => ~Fits(Abs(a.elo - b.elo), a.rangeFactor, a.priority,
                      b.rangeFactor)

\* C39, amended: no two players a tick leaves in the queue satisfy the
\* pairing condition as the tick evaluates it, that is with the rangeFactor
\* the active side (the one scanned first) has after the tick and the
\* rangeFactor the passive side had before the tick; the expansion of the
\* passive side, made later in the same tick, is not taken into account
\* before the next tick.
C39_NoPairLeftAsScanned ==
    LET t == now + TICK_RATE_MS
        st == matchmakingLoop(Svc, nextMatchId, t)
    IN \A i, j \in 1..Len(activeQueue) : \A a, b \in Range(st.activeQueue) :
          (/\ ScannedBefore(i, j)
           /\ a.userId = activeQueue[i].userId
           /\ b.userId = activeQueue[j].userId)
             => ~Fits(Abs(a.elo - b.elo), a.rangeFactor, a.priority,
                      activeQueue[j].rangeFactor)

\* A tick has just expanded two players who have waited for the same time to
\* rangeFactor 2 and left both in the queue, although their ratings are less
\* than 2 x BASE_TOLERANCE apart.
C39_Witness ==
    \E i, j \in 1..Len(activeQueue) :
       /\ activeQueue[i].elo < activeQueue[j].elo
       /\ activeQueue[j].elo - activeQueue[i].elo <= 2 * BASE_TOLERANCE
       /\ activeQueue[i].rangeFactor = 1 + EXPANSION_STEP
       /\ activeQueue[j].rangeFactor = 1 + EXPANSION_STEP
       /\ activeQueue[i].priority = activeQueue[j].priority
       /\ activeQueue[i].joinTime = activeQueue[j].joinTime
       /\ now - activeQueue[i].joinTime = EXPANSION_INTERVAL_MS + TICK_RATE_MS

\* The statuses of the two participants of a match, as a sequence
StatusPair(match) == <<match.player1.status, match.player2.status>>

\* C40: between handler calls every pending match has its two participants
\* PENDING, or one ACCEPTED and the other PENDING, never two ACCEPTED and
\* never one DECLINED; the accept of the second participant and the decline
\* of either participant take the match out of pendingMatches in the step
\* that handles them.
C40_PendingStatuses ==
    \A m \in DOMAIN pendingMatches :
       LET match == pendingMatches[m] IN
       /\ StatusPair(match) \in {<<"PENDING", "PENDING">>,
                               <<"ACCEPTED", "PENDING">>,
                               <<"PENDING", "ACCEPTED">>}
       /\ \A p \in {match.player1, match.player2} :
             /\ m \notin DOMAIN handleDeclineMatch(Svc, p.socketId, m,
                                                  NoFailure, now).pendingMatches
             /\ ("ACCEPTED" \in Range(StatusPair(match)) /\ p.status = "PENDING")
                   => m \notin DOMAIN handleAcceptMatch(Svc, p.socketId, m,
                                                        TRUE).pendingMatches

\* A pending match in which player2 has accepted and player1 has not
\* replied, one tick after it was proposed
C40_Witness ==
    \E m \in DOMAIN pendingMatches :
       /\ StatusPair(pendingMatches[m]) = <<"PENDING", "ACCEPTED">>
       /\ now > pendingMatches[m].expiresAt - MATCH_ACCEPT_TIMEOUT_MS

====
